---------------------------- MODULE Spec2Model ----------------------------
(***************************************************************************)
(* KVideo: the multi-source search-and-verify pipeline.                    *)
(*                                                                         *)
(*   - the batch handlers POST and GET of the search route                 *)
(*     (src/unnamed/part_002), which validate the request, fan the query   *)
(*     out with searchVideos, probe every result with                      *)
(*     checkMultipleVideos(allVideos, 8) and build the response;           *)
(*   - the streamed run: the search-stream route as spec.md sections 4.2   *)
(*     to 4.5 describe it, and its consumer useSearchStream.performSearch  *)
(*     (src/lib/store/search-history-store.ts).                            *)
(*                                                                         *)
(* searchVideos, checkMultipleVideos, getSourceById, getEnabledSources and *)
(* the search-stream route are imported by the sources but are not part of *)
(* them: they are modelled from spec.md.                                   *)
(***************************************************************************)
EXTENDS Integers, Sequences, FiniteSets, TLC

(***************************************************************************)
(* Bounds of the model.                                                    *)
(***************************************************************************)
\* results the largest source returns to one search call, at most
MaxResults == 9
\* results any other source returns to one search call, at most
SmallResults == 1

(***************************************************************************)
(* Generic helpers.                                                        *)
(***************************************************************************)
Range(s) == {s[i] : i \in DOMAIN s}

RECURSIVE SeqSum(_)
SeqSum(s) == IF s = <<>> THEN 0 ELSE Head(s) + SeqSum(Tail(s))

RECURSIVE FlatMap(_)
\* Array.prototype.flatMap over a sequence of sequences
FlatMap(ss) == IF ss = <<>> THEN <<>> ELSE Head(ss) \o FlatMap(Tail(ss))

RECURSIVE SelectIdx(_, _, _)
\* the indices i of 1..n, in increasing order, with i \in S
SelectIdx(i, n, S) ==
    IF i > n THEN <<>>
    ELSE (IF i \in S THEN <<i>> ELSE <<>>) \o SelectIdx(i + 1, n, S)

(***************************************************************************)
(* Strings are sequences of characters, so that String.prototype.trim is   *)
(* computed and not assumed.                                               *)
(***************************************************************************)
WhiteSpace == {" "}

RECURSIVE TrimStart(_)
TrimStart(s) ==
    IF s # <<>> /\ Head(s) \in WhiteSpace THEN TrimStart(Tail(s)) ELSE s

RECURSIVE TrimEnd(_)
TrimEnd(s) ==
    IF s # <<>> /\ s[Len(s)] \in WhiteSpace
    THEN TrimEnd(SubSeq(s, 1, Len(s) - 1)) ELSE s

trim(s) == TrimEnd(TrimStart(s))

(***************************************************************************)
(* The source registry (spec.md section 6): getSourceById and              *)
(* getEnabledSources are imported from '@/lib/api/video-sources'.  The     *)
(* model registers three of the sixteen source ids, one of them disabled;  *)
(* a descriptor is named by its id.                                        *)
(***************************************************************************)
Undefined == "undefined"

Registry ==
    << [id |-> "dytt", enabled |-> TRUE],
       [id |-> "ruyi", enabled |-> TRUE],
       [id |-> "ikun", enabled |-> FALSE] >>

getSourceById(id) ==
    IF \E n \in DOMAIN Registry : Registry[n].id = id THEN id ELSE Undefined

\* getEnabledSources().map(s => s.id)
getEnabledSources ==
    LET on == SelectSeq(Registry, LAMBDA d : d.enabled)
    IN  [n \in DOMAIN on |-> on[n].id]

\* the source with many matches for the query; the others have few
LargeSource == "ikun"

ResultBound(s) == IF s = LargeSource THEN MaxResults ELSE SmallResults

(***************************************************************************)
(* Requests.  A query is undefined, a non-string value or a string; a      *)
(* source list is undefined, a non-array value or an array of ids.         *)
(***************************************************************************)
Str(chars) == [kind |-> "string", chars |-> chars]

QueryInputs ==
    { [kind |-> "undefined", chars |-> <<>>],
      [kind |-> "number", chars |-> <<>>],
      Str(<<>>), Str(<<" ">>), Str(<<"m">>), Str(<<" ", "m">>) }

SourceIdLists ==
    { <<>>, <<"nosuch">>, <<"ikun">>, <<"ruyi", "ruyi">>,
      <<"ruyi", "nosuch", "dytt">> }

SourceIdsInputs ==
    { [kind |-> "undefined", ids |-> <<>>], [kind |-> "notarray", ids |-> <<>>] }
    \cup { [kind |-> "array", ids |-> l] : l \in SourceIdLists }

\* what one SourceClient call can end with (spec.md section 4.1)
SourceFailures == {"SourceUnavailable", "SourceMalformedResponse"}

\* what one availability probe can end with (spec.md section 4.3)
ProbeOutcomes == {"ok", "dead", "timeout", "neterr"}

Video(s, k) == [source |-> s, vod_id |-> k]

\* the k results source s returns
SourceResults(s, k) == [j \in 1..k |-> Video(s, j)]

VARIABLES
    hPhase,       \* "idle", "searching", "checking", "checked", "responded"
    hHandler,     \* "POST" or "GET", "none" before the request
    hQuery,       \* the query handed to searchVideos: query.trim()
    hSourceIds,   \* the requested source ids (sourceIds)
    hSources,     \* the resolved source descriptors (sources)
    srcState,     \* per slot of hSources: "pending", "ok", "failed"
    searchResults,\* per slot: [source, results]
    allVideos,    \* searchResults.flatMap(r => r.results)
    hConcurrency, \* the cap handed to checkMultipleVideos
    chk,          \* per candidate: "queued", "inflight", "available", "unavailable"
    response,     \* the NextResponse.json payload and status
    hReq          \* what the request held: the kind of its query and source list

batchVars == <<hPhase, hHandler, hQuery, hSourceIds, hSources, srcState,
               searchResults, allVideos, hConcurrency, chk, response, hReq>>

NoRequest == [query |-> "none", sources |-> "none"]

\* a body that is not JSON
UnparsedRequest == [query |-> "unparsed", sources |-> "unparsed"]

NoResponse ==
    [status |-> 0, success |-> "absent", error |-> "", query |-> <<>>,
     sources |-> <<>>, totalResults |-> 0, sourceStats |-> <<>>]

ErrorResponse(st, succ, msg) ==
    [NoResponse EXCEPT !.status = st, !.success = succ, !.error = msg]

InitBatch ==
    /\ hPhase = "idle"
    /\ hHandler = "none"
    /\ hQuery = <<>>
    /\ hSourceIds = <<>>
    /\ hSources = <<>>
    /\ srcState = <<>>
    /\ searchResults = <<>>
    /\ allVideos = <<>>
    /\ hConcurrency = 0
    /\ chk = <<>>
    /\ response = NoResponse
    /\ hReq = NoRequest

(***************************************************************************)
(* Request validation of the two handlers.                                 *)
(***************************************************************************)
\* JavaScript !query
Falsy(q) == q.kind = "undefined" \/ (q.kind = "string" /\ q.chars = <<>>)

\* POST: !query || typeof query !== 'string' || query.trim().length === 0
POSTQueryInvalid(q) ==
    Falsy(q) \/ q.kind # "string" \/ Len(trim(q.chars)) = 0

\* POST: !sourceIds || !Array.isArray(sourceIds) || sourceIds.length === 0
POSTSourceIdsInvalid(ids) == ids.kind # "array" \/ Len(ids.ids) = 0

\* GET: !query
GETQueryInvalid(q) == Falsy(q)

\* GET: sourcesParam ? sourcesParam.split(',') : getEnabledSources().map(s => s.id)
\* (ids.ids holds the parts of the parameter; the empty parameter is falsy)
GETSourceIds(ids) ==
    IF ids.kind = "array" /\ ids.ids # <<>> THEN ids.ids ELSE getEnabledSources

\* sourceIds.map(id => getSourceById(id)).filter(source => source !== undefined)
ResolveSources(ids) ==
    SelectSeq([i \in 1..Len(ids) |-> getSourceById(ids[i])],
              LAMBDA s : s # Undefined)

\* the query of a request: missing, not a string, blank or text
QueryKind(q) ==
    IF q.kind = "undefined" THEN "missing"
    ELSE IF q.kind # "string" THEN "nonstring"
    ELSE IF Len(trim(q.chars)) = 0 THEN "blank"
    ELSE "text"

\* the source list of a request: missing, not a list, empty, or a list of
\* ids of which none or some are known
SourcesKind(ids) ==
    IF ids.kind = "undefined" THEN "missing"
    ELSE IF ids.kind # "array" THEN "notalist"
    ELSE IF Len(ids.ids) = 0 THEN "empty"
    ELSE IF Len(ResolveSources(ids.ids)) = 0 THEN "unknown"
    ELSE "known"

RequestSeen(q, ids) == [query |-> QueryKind(q), sources |-> SourcesKind(ids)]

\* a handler that leaves the cap to the default of checkMultipleVideos
checkConcurrencyDefault(handler) == IF handler = "GET" THEN 10 ELSE 8

\* the second argument of checkMultipleVideos(allVideos, 8)
checkConcurrency(handler) == 8

(***************************************************************************)
(* searchVideos(query, sources, page): one SourceClient call per slot of   *)
(* sources, all started together; a failing call is swallowed and its slot *)
(* reports no results (spec.md section 4.2).  The call resolves when every *)
(* slot has reported.                                                      *)
(***************************************************************************)
SlotResult(s, results) == [source |-> s, results |-> results]

StartSearch(sources) == [i \in 1..Len(sources) |-> "pending"]

SlotSucceeds(results, i, s, k) ==
    [results EXCEPT ![i] = SlotResult(s, SourceResults(s, k))]

SlotFails(results, i, s) == [results EXCEPT ![i] = SlotResult(s, <<>>)]

AllReported(st) == \A i \in DOMAIN st : st[i] # "pending"

(***************************************************************************)
(* checkMultipleVideos(videos, concurrency): the VerificationScheduler of  *)
(* spec.md section 4.4.  The pending candidates wait in submission order;  *)
(* a candidate is admitted whenever fewer than `concurrency` checks are in *)
(* flight; a probe that times out or fails counts as unavailable           *)
(* (section 4.3).                                                          *)
(***************************************************************************)
InFlight(c) == {j \in DOMAIN c : c[j] = "inflight"}

Queued(c) == {j \in DOMAIN c : c[j] = "queued"}

Settled(c) == \A j \in DOMAIN c : c[j] \in {"available", "unavailable"}

\* a scheduler that keeps one slot idle
AdmitOneShort(c, cap) ==
    LET free == cap - 1 - Cardinality(InFlight(c))
        q    == SelectIdx(1, Len(c), Queued(c))
        take == {q[n] : n \in {m \in DOMAIN q : m <= free}}
    IN  [j \in DOMAIN c |-> IF j \in take THEN "inflight" ELSE c[j]]

\* admit queued candidates, lowest index first, while a slot is free
Admit(c, cap) ==
    LET free == cap - Cardinality(InFlight(c))
        q    == SelectIdx(1, Len(c), Queued(c))
        take == {q[n] : n \in {m \in DOMAIN q : m <= free}}
    IN  [j \in DOMAIN c |-> IF j \in take THEN "inflight" ELSE c[j]]

StartChecks(videos, cap) == Admit([j \in 1..Len(videos) |-> "queued"], cap)

\* AvailabilityChecker: only a successful probe gives available = true
Verdict(outcome) == IF outcome = "ok" THEN "available" ELSE "unavailable"

\* a scheduler that counts a probe overtaken by a later one as unavailable
CompleteCheckRacy(c, j, outcome, cap) ==
    Admit([c EXCEPT ![j] = IF \A o \in InFlight(c) : j <= o
                           THEN Verdict(outcome) ELSE "unavailable"], cap)

\* a scheduler that admits nothing after its first batch
CompleteCheckNoAdmit(c, j, outcome, cap) == [c EXCEPT ![j] = Verdict(outcome)]

CompleteCheck(c, j, outcome, cap) ==
    Admit([c EXCEPT ![j] = Verdict(outcome)], cap)

\* the resolved value: the candidates whose verdict is available
AvailableVideos(videos, c) ==
    LET idx == SelectIdx(1, Len(videos), {j \in DOMAIN c : c[j] = "available"})
    IN  [n \in DOMAIN idx |-> videos[idx[n]]]

(***************************************************************************)
(* The response of a run (part_002 lines 98-138, 210-250).                 *)
(***************************************************************************)
\* only the first source's results are kept
CollectVideosFirstOnly(results) == results[1].results

\* searchResults.flatMap(r => r.results)
CollectVideos(results) ==
    FlatMap([i \in DOMAIN results |-> results[i].results])

RECURSIVE GroupBySourceOverwrite(_, _)
\* set(sourceId, [video]) in place of get(sourceId).push(video)
GroupBySourceOverwrite(videos, groups) ==
    IF videos = <<>> THEN groups
    ELSE LET v == Head(videos)
             at == {g \in DOMAIN groups : groups[g].source = v.source}
         IN  IF at = {}
             THEN GroupBySourceOverwrite(Tail(videos),
                      Append(groups, [source |-> v.source, results |-> <<v>>]))
             ELSE LET g == CHOOSE x \in at : TRUE
                  IN  GroupBySourceOverwrite(Tail(videos),
                          [groups EXCEPT ![g].results = <<v>>])

RECURSIVE GroupBySource(_, _)
\* videosBySource: a Map keyed by video.source, in order of first insertion
GroupBySource(videos, groups) ==
    IF videos = <<>> THEN groups
    ELSE LET v == Head(videos)
             at == {g \in DOMAIN groups : groups[g].source = v.source}
         IN  IF at = {}
             THEN GroupBySource(Tail(videos),
                      Append(groups, [source |-> v.source, results |-> <<v>>]))
             ELSE LET g == CHOOSE x \in at : TRUE
                  IN  GroupBySource(Tail(videos),
                          [groups EXCEPT ![g].results = Append(@, v)])

\* videosBySource.get(sourceId)?.length || 0
GroupCount(groups, sourceId) ==
    LET at == {g \in DOMAIN groups : groups[g].source = sourceId}
    IN  IF at = {} THEN 0 ELSE Len(groups[CHOOSE x \in at : TRUE].results)

\* sourceIds.map(sourceId => ({ sourceId, count }))
SourceStats(sourceIds, groups) ==
    [i \in DOMAIN sourceIds |->
        [sourceId |-> sourceIds[i], count |-> GroupCount(groups, sourceIds[i])]]

SuccessResponse(query, sourceIds, available) ==
    LET groups == GroupBySource(available, <<>>)
    IN  [status |-> 200, success |-> "true", error |-> "", query |-> query,
         sources |-> groups, totalResults |-> Len(available),
         sourceStats |-> SourceStats(sourceIds, groups)]

(***************************************************************************)
(* The batch handlers POST and GET, one action per step of a handler       *)
(* between two awaits.                                                     *)
(***************************************************************************)
Reject(handler, resp) ==
    /\ hPhase' = "responded"
    /\ hHandler' = handler
    /\ response' = resp
    /\ UNCHANGED <<hQuery, hSourceIds, hSources, srcState, searchResults,
                   allVideos, hConcurrency, chk>>

\* const searchResults = await searchVideos(query.trim(), sources, page)
BeginSearch(handler, query, sourceIds, sources) ==
    /\ hPhase' = "searching"
    /\ hHandler' = handler
    /\ hQuery' = query
    /\ hSourceIds' = sourceIds
    /\ hSources' = sources
    /\ srcState' = StartSearch(sources)
    /\ searchResults' = [i \in 1..Len(sources) |-> SlotResult(sources[i], <<>>)]
    /\ UNCHANGED <<allVideos, hConcurrency, chk, response>>

POSTReceive(q, ids) ==
    /\ hPhase = "idle"
    /\ hReq' = RequestSeen(q, ids)
    /\ IF POSTQueryInvalid(q)
       THEN Reject("POST", ErrorResponse(400, "absent",
                                   "Invalid or missing query parameter"))
       ELSE IF POSTSourceIdsInvalid(ids)
       THEN Reject("POST", ErrorResponse(400, "absent",
                                   "At least one source must be specified"))
       ELSE IF Len(ResolveSources(ids.ids)) = 0
       THEN Reject("POST", ErrorResponse(400, "absent", "No valid sources found"))
       ELSE BeginSearch("POST", trim(q.chars), ids.ids, ResolveSources(ids.ids))

\* await request.json() rejects on a body that is not JSON: the catch block
POSTMalformedBody ==
    /\ hPhase = "idle"
    /\ hReq' = UnparsedRequest
    /\ Reject("POST", ErrorResponse(500, "false", "Internal server error"))

GETReceive(q, ids) ==
    /\ hPhase = "idle"
    /\ hReq' = RequestSeen(q, ids)
    /\ IF GETQueryInvalid(q)
       THEN Reject("GET", ErrorResponse(400, "absent", "Missing query parameter"))
       ELSE IF Len(ResolveSources(GETSourceIds(ids))) = 0
       THEN Reject("GET", ErrorResponse(400, "absent", "No valid sources found"))
       ELSE BeginSearch("GET", trim(q.chars), GETSourceIds(ids),
                        ResolveSources(GETSourceIds(ids)))

\* one SourceClient call returns k results
SourceReturns(i, k) ==
    /\ hPhase = "searching"
    /\ i \in DOMAIN srcState
    /\ srcState[i] = "pending"
    /\ k <= ResultBound(hSources[i])
    /\ srcState' = [srcState EXCEPT ![i] = "ok"]
    /\ searchResults' = SlotSucceeds(searchResults, i, hSources[i], k)
    /\ UNCHANGED <<hPhase, hHandler, hQuery, hSourceIds, hSources, allVideos,
                   hConcurrency, chk, response, hReq>>

\* one SourceClient call times out or fails: swallowed, no results
SourceFails(i, failure) ==
    /\ hPhase = "searching"
    /\ i \in DOMAIN srcState
    /\ srcState[i] = "pending"
    /\ failure \in SourceFailures
    /\ srcState' = [srcState EXCEPT ![i] = "failed"]
    /\ searchResults' = SlotFails(searchResults, i, hSources[i])
    /\ UNCHANGED <<hPhase, hHandler, hQuery, hSourceIds, hSources, allVideos,
                   hConcurrency, chk, response, hReq>>

\* searchVideos resolves: allVideos and the call of checkMultipleVideos
SearchDone ==
    /\ hPhase = "searching"
    /\ AllReported(srcState)
    /\ hPhase' = "checking"
    /\ allVideos' = CollectVideos(searchResults)
    /\ hConcurrency' = checkConcurrency(hHandler)
    /\ chk' = StartChecks(CollectVideos(searchResults), checkConcurrency(hHandler))
    /\ UNCHANGED <<hHandler, hQuery, hSourceIds, hSources, srcState,
                   searchResults, response, hReq>>

\* one availability probe ends; the next queued candidate is admitted
CheckCompletes(j, outcome) ==
    /\ hPhase = "checking"
    /\ j \in InFlight(chk)
    /\ chk' = CompleteCheck(chk, j, outcome, hConcurrency)
    /\ UNCHANGED <<hPhase, hHandler, hQuery, hSourceIds, hSources, srcState,
                   searchResults, allVideos, hConcurrency, response, hReq>>

\* checkMultipleVideos resolves: grouping, statistics and the response
Respond ==
    /\ hPhase = "checking"
    /\ Settled(chk)
    /\ hPhase' = "responded"
    /\ response' = SuccessResponse(hQuery, hSourceIds,
                                   AvailableVideos(allVideos, chk))
    /\ UNCHANGED <<hHandler, hQuery, hSourceIds, hSources, srcState,
                   searchResults, allVideos, hConcurrency, chk, hReq>>

(***************************************************************************)
(*                        The streamed run                                 *)
(*                                                                         *)
(* The search-stream route is the ProgressStreamer of spec.md section 4.5; *)
(* its consumer is useSearchStream.performSearch.  The route serves one    *)
(* request at a time in the model: runs share no state (spec.md section    *)
(* 1), so the route comes to rest on a run before it accepts the next one. *)
(***************************************************************************)
\* the first two of the sixteen ids of SOURCE_IDS
SOURCE_IDS == <<"dytt", "ruyi">>

\* the cap of the streamed run's scheduler (spec.md section 5)
StreamCap == 8

\* performSearch calls that pass the entry guard, at most
MaxSearches == 2

VARIABLES
    \* the route
    sStage,        \* "idle", "searching", "checking", "complete", "failed", "cancelled"
    sSrc,          \* per requested source: "pending", "ok", "failed", "cancelled"
    sCands,        \* the merged candidate list, in order of arrival
    sChk,          \* per candidate: "queued", "inflight", "available",
                   \* "unavailable", "cancelled"
    wire,          \* the records written to the response of the run served
    streamClosed,  \* the response body has ended
    aborted,       \* abort() was called on the controller of the run served
    \* the consumer
    accepted,      \* the response of the latest fetch is being produced
    loading, results, availableSources, checkedSources, searchStage,
    checkedVideos, totalVideos,
    cbLoading,     \* the value of loading the current performSearch closure holds
    cpc,           \* the latest run: "idle", "fetching", "reading", "ended"
    cPos,          \* records of wire the read loop has gone through
    allVideosC,    \* the local allVideos of the latest run
    sourceVideoCounts, \* the local Map of the latest run, in insertion order
    pendingCatch,  \* the aborted run's rejection has not reached its catch yet
    searches,      \* performSearch calls that passed the guard
    cacheCalls     \* the onCacheUpdate calls of the latest run: results, sources

routeVars == <<sStage, sSrc, sCands, sChk, wire, streamClosed, aborted>>

hookState == <<loading, results, availableSources, checkedSources,
               searchStage, checkedVideos, totalVideos>>

clientVars == <<accepted, loading, results, availableSources, checkedSources,
                searchStage, checkedVideos, totalVideos, cbLoading, cpc, cPos,
                allVideosC, sourceVideoCounts, pendingCatch, searches,
                cacheCalls>>

streamVars == <<routeVars, clientVars>>

InitStream ==
    /\ sStage = "idle"
    /\ sSrc = <<>>
    /\ sCands = <<>>
    /\ sChk = <<>>
    /\ wire = <<>>
    /\ streamClosed = FALSE
    /\ aborted = FALSE
    /\ accepted = FALSE
    /\ loading = FALSE
    /\ results = <<>>
    /\ availableSources = <<>>
    /\ checkedSources = 0
    /\ searchStage = "searching"
    /\ checkedVideos = 0
    /\ totalVideos = 0
    /\ cbLoading = FALSE
    /\ cpc = "idle"
    /\ cPos = 0
    /\ allVideosC = <<>>
    /\ sourceVideoCounts = <<>>
    /\ pendingCatch = FALSE
    /\ searches = 0
    /\ cacheCalls = <<>>

(***************************************************************************)
(* The records of the streamed response (spec.md sections 3 and 6).        *)
(***************************************************************************)
Record(type) ==
    [type |-> type, stage |-> "", checkedSources |-> 0, totalSources |-> 0,
     checkedVideos |-> 0, totalVideos |-> 0, videos |-> <<>>]

\* Progress(stage = Searching, checkedSources, totalSources)
EvSearching(checked, total) ==
    [Record("progress") EXCEPT !.stage = "searching",
                               !.checkedSources = checked,
                               !.totalSources = total]

\* Progress(stage = Checking, checkedVideos, totalVideos)
EvChecking(checked, total) ==
    [Record("progress") EXCEPT !.stage = "checking",
                               !.checkedVideos = checked,
                               !.totalVideos = total]

\* VideosFound(newlyVerified, checkedVideos, totalVideos)
EvVideos(videos, checked, total) ==
    [Record("videos") EXCEPT !.videos = videos,
                             !.checkedVideos = checked,
                             !.totalVideos = total]

\* Complete(totalVerified)
EvComplete(verified) == [Record("complete") EXCEPT !.totalVideos = verified]

\* Error(message)
EvError == Record("error")

(***************************************************************************)
(* The route (spec.md section 4.5).  Cancellation is cooperative: once the *)
(* caller's abort has reached the run, the only step the run takes is the  *)
(* one that observes it.                                                   *)
(***************************************************************************)
\* a fetch that is not given the controller's signal
FetchWithoutSignal == FALSE

\* fetch(..., { signal: abortControllerRef.current.signal })
FetchHasSignal == TRUE

CancelRequested == aborted /\ FetchHasSignal

RouteActive == sStage \in {"searching", "checking"}

Reported(st) == {i \in DOMAIN st : st[i] \in {"ok", "failed"}}

CheckedCount(c) ==
    Cardinality({j \in DOMAIN c : c[j] \in {"available", "unavailable"}})

VerifiedCount(c) == Cardinality({j \in DOMAIN c : c[j] = "available"})

\* a route that reports the sources again with every verdict
VerdictRecordsWithSearching(cands, c, j) ==
    << EvVideos(IF c[j] = "available" THEN <<cands[j]>> ELSE <<>>,
                CheckedCount(c), Len(cands)),
       EvSearching(Len(cands), Len(cands)),
       EvChecking(CheckedCount(c), Len(cands)) >>

\* the records one verdict gives rise to
VerdictRecords(cands, c, j) ==
    << EvVideos(IF c[j] = "available" THEN <<cands[j]>> ELSE <<>>,
                CheckedCount(c), Len(cands)),
       EvChecking(CheckedCount(c), Len(cands)) >>

\* a run that says Complete twice
CompleteRecordsTwice(c) ==
    << EvComplete(VerifiedCount(c)), EvComplete(VerifiedCount(c)) >>

\* the records that end a successful run
CompleteRecords(c) == << EvComplete(VerifiedCount(c)) >>

\* the request reaches the route: Searching, every source call started
SrvAccept ==
    /\ cpc = "fetching"
    /\ ~accepted
    /\ ~RouteActive
    /\ accepted' = TRUE
    /\ sStage' = "searching"
    /\ sSrc' = StartSearch(ResolveSources(SOURCE_IDS))
    /\ sCands' = <<>>
    /\ sChk' = <<>>
    /\ wire' = <<>>
    /\ streamClosed' = FALSE
    /\ aborted' = FALSE
    /\ UNCHANGED <<hookState, cbLoading, cpc, cPos, allVideosC,
                   sourceVideoCounts, pendingCatch, searches,
                   cacheCalls>>

\* a source reports k results: merged, and a Searching progress record
SrvSourceReturns(i, k) ==
    /\ sStage = "searching"
    /\ ~CancelRequested
    /\ i \in DOMAIN sSrc
    /\ sSrc[i] = "pending"
    /\ k <= ResultBound(ResolveSources(SOURCE_IDS)[i])
    /\ sSrc' = [sSrc EXCEPT ![i] = "ok"]
    /\ sCands' = sCands \o SourceResults(ResolveSources(SOURCE_IDS)[i], k)
    /\ wire' = Append(wire, EvSearching(Cardinality(Reported(sSrc')), Len(sSrc)))
    /\ UNCHANGED <<sStage, sChk, streamClosed, aborted, clientVars>>

\* a source fails: swallowed, and a Searching progress record
SrvSourceFails(i, failure) ==
    /\ sStage = "searching"
    /\ ~CancelRequested
    /\ i \in DOMAIN sSrc
    /\ sSrc[i] = "pending"
    /\ failure \in SourceFailures
    /\ sSrc' = [sSrc EXCEPT ![i] = "failed"]
    /\ wire' = Append(wire, EvSearching(Cardinality(Reported(sSrc')), Len(sSrc)))
    /\ UNCHANGED <<sStage, sCands, sChk, streamClosed, aborted, clientVars>>

\* every source has reported: Checking, the scheduler admits up to the cap
SrvStartChecking ==
    /\ sStage = "searching"
    /\ ~CancelRequested
    /\ AllReported(sSrc)
    /\ sStage' = "checking"
    /\ sChk' = StartChecks(sCands, StreamCap)
    /\ UNCHANGED <<sSrc, sCands, wire, streamClosed, aborted, clientVars>>

\* a verdict: emitted at once, the next queued candidate admitted
SrvCheckDone(j, outcome) ==
    /\ sStage = "checking"
    /\ ~CancelRequested
    /\ j \in InFlight(sChk)
    /\ sChk' = CompleteCheck(sChk, j, outcome, StreamCap)
    /\ wire' = wire \o VerdictRecords(sCands, sChk', j)
    /\ UNCHANGED <<sStage, sSrc, sCands, streamClosed, aborted, clientVars>>

\* scheduler exhausted: the Complete record, and the stream ends
SrvComplete ==
    /\ sStage = "checking"
    /\ ~CancelRequested
    /\ Settled(sChk)
    /\ sStage' = "complete"
    /\ wire' = wire \o CompleteRecords(sChk)
    /\ streamClosed' = TRUE
    /\ UNCHANGED <<sSrc, sCands, sChk, aborted, clientVars>>

\* PipelineFatal: a terminal Error record, and the stream ends
SrvFatal ==
    /\ RouteActive
    /\ ~CancelRequested
    /\ sStage' = "failed"
    /\ wire' = Append(wire, EvError)
    /\ streamClosed' = TRUE
    /\ UNCHANGED <<sSrc, sCands, sChk, aborted, clientVars>>

\* the run observes the cancellation: every call in flight is cancelled,
\* nothing more is admitted or emitted
SrvObserveCancel ==
    /\ RouteActive
    /\ CancelRequested
    /\ sStage' = "cancelled"
    /\ sSrc' = [i \in DOMAIN sSrc |->
                   IF sSrc[i] = "pending" THEN "cancelled" ELSE sSrc[i]]
    /\ sChk' = [j \in DOMAIN sChk |->
                   IF sChk[j] = "inflight" THEN "cancelled" ELSE sChk[j]]
    /\ streamClosed' = TRUE
    /\ UNCHANGED <<sCands, wire, aborted, clientVars>>

(***************************************************************************)
(* The consumer: useSearchStream (search-history-store.ts lines 90-253).   *)
(* currentSource is only ever set to '' and is left out.                   *)
(***************************************************************************)
\* the queries the caller passes to performSearch
ClientQueries == { <<>>, <<" ">>, <<"m">>, <<"m", " ">> }

\* a consumer that shows the number of sources asked
NextCheckedSourcesTotal(data) == data.totalSources

\* setCheckedSources(data.checkedSources)
NextCheckedSources(data) == data.checkedSources

\* a consumer that takes the processed count for the total
NextTotalVideosChecked(data) == data.checkedVideos

\* setTotalVideos(data.totalVideos)
NextTotalVideos(data) == data.totalVideos

\* setCheckedVideos(data.checkedVideos)
NextCheckedVideos(data) == data.checkedVideos

\* a consumer that keeps only the latest batch
PushVideosOverwrite(all, newVideos) == newVideos

\* allVideos.push(...newVideos)
PushVideos(all, newVideos) == all \o newVideos

RECURSIVE CountVideosSetOne(_, _)
\* sourceVideoCounts.set(video.source, 1) for a source already counted
CountVideosSetOne(counts, newVideos) ==
    IF newVideos = <<>> THEN counts
    ELSE LET v == Head(newVideos)
             at == {n \in DOMAIN counts : counts[n].id = v.source}
         IN  IF at = {}
             THEN CountVideosSetOne(
                      Append(counts, [id |-> v.source, count |-> 1]),
                      Tail(newVideos))
             ELSE CountVideosSetOne(counts, Tail(newVideos))

RECURSIVE CountVideos(_, _)
\* newVideos.forEach(video => sourceVideoCounts.set(video.source, count + 1))
CountVideos(counts, newVideos) ==
    IF newVideos = <<>> THEN counts
    ELSE LET v == Head(newVideos)
             at == {n \in DOMAIN counts : counts[n].id = v.source}
         IN  IF at = {}
             THEN CountVideos(Append(counts, [id |-> v.source, count |-> 1]),
                              Tail(newVideos))
             ELSE LET n == CHOOSE x \in at : TRUE
                  IN  CountVideos([counts EXCEPT ![n].count = @ + 1],
                                  Tail(newVideos))

\* Array.from(sourceVideoCounts.entries()).map(([sourceId, count]) => ...)
SourcesArray(counts) ==
    [n \in DOMAIN counts |-> [id |-> counts[n].id, count |-> counts[n].count]]

\* a consumer that saves the list without its videos
SaveToCacheEmpty(calls, all, counts) ==
    Append(calls, [results |-> <<>>, sources |-> SourcesArray(counts)])

\* onCacheUpdate(searchQuery, allVideos, finalSourcesArray); the query is
\* the run's own and is not recorded
SaveToCache(calls, all, counts) ==
    Append(calls, [results |-> all, sources |-> SourcesArray(counts)])

\* performSearch up to its first await (lines 104-131)
PerformSearch(searchQuery) ==
    /\ ~pendingCatch
    /\ searches < MaxSearches
    /\ Len(trim(searchQuery)) # 0
    /\ ~cbLoading
    /\ searches' = searches + 1
    \* abortControllerRef.current.abort(): the run still awaiting is rejected
    /\ pendingCatch' = (cpc \in {"fetching", "reading"} /\ FetchHasSignal)
    /\ aborted' = (cpc \in {"fetching", "reading"} /\ accepted /\ RouteActive)
    /\ accepted' = FALSE
    /\ loading' = TRUE
    /\ results' = <<>>
    /\ availableSources' = <<>>
    /\ checkedSources' = 0
    /\ searchStage' = "searching"
    /\ checkedVideos' = 0
    /\ totalVideos' = 0
    /\ cpc' = "fetching"
    /\ cPos' = 0
    /\ allVideosC' = <<>>
    /\ sourceVideoCounts' = <<>>
    /\ cacheCalls' = <<>>
    /\ UNCHANGED <<sStage, sSrc, sCands, sChk, wire, streamClosed, cbLoading>>

\* a render: performSearch is created again with the current loading
Rerender ==
    /\ ~pendingCatch
    /\ cbLoading # loading
    /\ cbLoading' = loading
    /\ UNCHANGED <<routeVars, accepted, hookState, cpc, cPos, allVideosC,
                   sourceVideoCounts, pendingCatch, searches,
                   cacheCalls>>

\* the aborted run's await rejects with AbortError: catch and finally
AbortedCatch ==
    /\ pendingCatch
    /\ pendingCatch' = FALSE
    /\ loading' = FALSE
    /\ UNCHANGED <<routeVars, accepted, results, availableSources,
                   checkedSources, searchStage, checkedVideos, totalVideos,
                   cbLoading, cpc, cPos, allVideosC, sourceVideoCounts, searches,
                   cacheCalls>>

\* await fetch resolves with an ok response and a body
FetchResolves ==
    /\ ~pendingCatch
    /\ cpc = "fetching"
    /\ accepted
    /\ cpc' = "reading"
    /\ UNCHANGED <<routeVars, accepted, hookState, cbLoading, cPos, allVideosC,
                   sourceVideoCounts, pendingCatch, searches,
                   cacheCalls>>

\* fetch rejects, or the response is not ok or has no body: catch and finally
FetchFails ==
    /\ ~pendingCatch
    /\ cpc = "fetching"
    /\ cpc' = "ended"
    /\ loading' = FALSE
    /\ UNCHANGED <<routeVars, accepted, results, availableSources,
                   checkedSources, searchStage, checkedVideos, totalVideos,
                   cbLoading, cPos, allVideosC, sourceVideoCounts, pendingCatch,
                   searches,
                   cacheCalls>>

\* the read loop goes through one record of the response (lines 151-219)
ClientApply ==
    /\ ~pendingCatch
    /\ cpc = "reading"
    /\ cPos < Len(wire)
    /\ cPos' = cPos + 1
    /\ LET data == wire[cPos + 1]
       IN  CASE data.type = "progress" /\ data.stage = "searching" ->
                  /\ searchStage' = "searching"
                  /\ checkedSources' = NextCheckedSources(data)
                  /\ UNCHANGED <<loading, results, availableSources,
                                 checkedVideos, totalVideos, allVideosC,
                                 sourceVideoCounts, cacheCalls>>
             [] data.type = "progress" /\ data.stage = "checking" ->
                  /\ searchStage' = "checking"
                  /\ checkedVideos' = NextCheckedVideos(data)
                  /\ totalVideos' = NextTotalVideos(data)
                  /\ UNCHANGED <<loading, results, availableSources,
                                 checkedSources, allVideosC, sourceVideoCounts,
                                 cacheCalls>>
             [] data.type = "videos" ->
                  /\ allVideosC' = PushVideos(allVideosC, data.videos)
                  /\ results' = allVideosC'
                  /\ checkedVideos' = NextCheckedVideos(data)
                  /\ totalVideos' = NextTotalVideos(data)
                  /\ sourceVideoCounts' =
                         CountVideos(sourceVideoCounts, data.videos)
                  /\ availableSources' = SourcesArray(sourceVideoCounts')
                  /\ UNCHANGED <<loading, checkedSources, searchStage, cacheCalls>>
             [] data.type = "complete" ->
                  /\ checkedVideos' = data.totalVideos
                  /\ loading' = FALSE
                  /\ cacheCalls' =
                         SaveToCache(cacheCalls, allVideosC, sourceVideoCounts)
                  /\ UNCHANGED <<results, availableSources, checkedSources,
                                 searchStage, totalVideos, allVideosC,
                                 sourceVideoCounts>>
             \* 'error': the Error thrown is caught by the catch of the same
             \* try block; any other record is skipped
             [] OTHER ->
                  UNCHANGED <<hookState, allVideosC, sourceVideoCounts, cacheCalls>>
    /\ UNCHANGED <<routeVars, accepted, cbLoading, cpc, pendingCatch, searches>>

\* reader.read() reports done: the loop ends, finally
ClientDone ==
    /\ ~pendingCatch
    /\ cpc = "reading"
    /\ cPos = Len(wire)
    /\ streamClosed
    /\ cpc' = "ended"
    /\ UNCHANGED <<routeVars, accepted, hookState, cbLoading, cPos, allVideosC,
                   sourceVideoCounts, pendingCatch, searches,
                   cacheCalls>>

\* reader.read() rejects on a network failure: catch and finally
ClientReadFails ==
    /\ ~pendingCatch
    /\ cpc = "reading"
    /\ cpc' = "ended"
    /\ loading' = FALSE
    /\ UNCHANGED <<routeVars, accepted, results, availableSources,
                   checkedSources, searchStage, checkedVideos, totalVideos,
                   cbLoading, cPos, allVideosC, sourceVideoCounts, pendingCatch,
                   searches,
                   cacheCalls>>

\* resetSearch (lines 231-239)
ResetSearch ==
    /\ ~pendingCatch
    /\ results' = <<>>
    /\ availableSources' = <<>>
    /\ checkedSources' = 0
    /\ searchStage' = "searching"
    /\ checkedVideos' = 0
    /\ totalVideos' = 0
    /\ UNCHANGED <<routeVars, accepted, loading, cbLoading, cpc, cPos,
                   allVideosC, sourceVideoCounts, pendingCatch, searches,
                   cacheCalls>>

(***************************************************************************)
(* The consumer alone: the response body is whatever the network delivers, *)
(* record by record.                                                       *)
(***************************************************************************)
\* records of one response body, at most
MaxWire == 3

\* a line that is not a 'data: ' line, or whose JSON does not parse
EvJunk == Record("junk")

WireRecords ==
    { EvSearching(1, 2), EvVideos(<<Video("dytt", 1)>>, 1, 2),
      EvVideos(<<Video("ruyi", 1), Video("dytt", 2)>>, 2, 2),
      EvComplete(1), EvError, EvJunk }

\* the response of the latest fetch begins
WireOpens ==
    /\ cpc = "fetching"
    /\ ~accepted
    /\ accepted' = TRUE
    /\ wire' = <<>>
    /\ streamClosed' = FALSE
    /\ UNCHANGED <<sStage, sSrc, sCands, sChk, aborted, hookState, cbLoading,
                   cpc, cPos, allVideosC, sourceVideoCounts, pendingCatch,
                   searches,
                   cacheCalls>>

\* one more record arrives
WireDelivers(rec) ==
    /\ accepted
    /\ ~streamClosed
    /\ Len(wire) < MaxWire
    /\ wire' = Append(wire, rec)
    /\ UNCHANGED <<sStage, sSrc, sCands, sChk, streamClosed, aborted,
                   clientVars>>

\* the response body ends
WireCloses ==
    /\ accepted
    /\ ~streamClosed
    /\ streamClosed' = TRUE
    /\ UNCHANGED <<sStage, sSrc, sCands, sChk, wire, aborted, clientVars>>

(***************************************************************************)
(* The same request twice.  A world fixes what every source answers and    *)
(* what every probe finds; the POST handler runs the request in that       *)
(* world, and then once more, each time in any order of completion.        *)
(***************************************************************************)
VARIABLES
    iWorld,   \* the request's source ids, the failing sources, the dead videos
    iRun,     \* 0: no run yet, 1: first run, 2: between the runs, 3: second run
    iFirst    \* the response of the first run

idemVars == <<iWorld, iRun, iFirst>>

NoWorld == [ids |-> <<>>, fails |-> {}, dead |-> {}]

InitIdem ==
    /\ iWorld = NoWorld
    /\ iRun = 0
    /\ iFirst = NoResponse

\* the results every source has beyond its first ones
LateResults == (SmallResults + 1)..MaxResults

\* the worlds: a request that resolves, any of its sources failing, and the
\* results with the chosen vod ids dead at every source
Worlds ==
    { [ids |-> l, fails |-> f, dead |-> d \cup late] :
        l \in {x \in SourceIdLists : Len(ResolveSources(x)) > 0},
        f \in SUBSET {"dytt", "ruyi", "ikun"},
        d \in SUBSET (1..SmallResults),
        late \in {{}, LateResults} }

\* the worlds in which the late results are dead
LateDeadWorlds == {w \in Worlds : LateResults \subseteq w.dead}

IdemQuery == Str(<<"m">>)

IdemBegin(world) ==
    /\ iRun = 0
    /\ world \in Worlds
    /\ world.fails \subseteq Range(ResolveSources(world.ids))
    /\ POSTReceive(IdemQuery, [kind |-> "array", ids |-> world.ids])
    /\ iWorld' = world
    /\ iRun' = 1
    /\ UNCHANGED iFirst

\* a source call ends as the world has it
IdemSourceEnds(i) ==
    /\ iRun \in {1, 3}
    /\ i \in DOMAIN hSources
    /\ IF hSources[i] \in iWorld.fails
       THEN SourceFails(i, "SourceUnavailable")
       ELSE SourceReturns(i, ResultBound(hSources[i]))
    /\ UNCHANGED idemVars

IdemSearchDone == iRun \in {1, 3} /\ SearchDone /\ UNCHANGED idemVars

\* a probe ends as the world has it
IdemProbeEnds(j) ==
    /\ iRun \in {1, 3}
    /\ j \in DOMAIN allVideos
    /\ CheckCompletes(j, IF allVideos[j].vod_id \in iWorld.dead
                         THEN "dead" ELSE "ok")
    /\ UNCHANGED idemVars

IdemRespond == iRun \in {1, 3} /\ Respond /\ UNCHANGED idemVars

\* the first run has answered: its response is kept, the handler is fresh
IdemRestart ==
    /\ iRun = 1
    /\ hPhase = "responded"
    /\ iFirst' = response
    /\ iRun' = 2
    /\ hPhase' = "idle"
    /\ hHandler' = "none"
    /\ hQuery' = <<>>
    /\ hSourceIds' = <<>>
    /\ hSources' = <<>>
    /\ srcState' = <<>>
    /\ searchResults' = <<>>
    /\ allVideos' = <<>>
    /\ hConcurrency' = 0
    /\ chk' = <<>>
    /\ response' = NoResponse
    /\ hReq' = NoRequest
    /\ UNCHANGED iWorld

\* the same request again
IdemAgain ==
    /\ iRun = 2
    /\ POSTReceive(IdemQuery, [kind |-> "array", ids |-> iWorld.ids])
    /\ iRun' = 3
    /\ UNCHANGED <<iWorld, iFirst>>

(***************************************************************************)
(* The framing of the streamed response.  The body is text: one line       *)
(* 'data: <JSON>' per record, lines delimited by newlines (spec.md section *)
(* 6).  The network hands the body to reader.read() in chunks cut at any   *)
(* character; the read loop (search-history-store.ts lines 139-155) puts   *)
(* the lines together again.  A chunk cut inside a multi-byte character is *)
(* held back by decoder.decode(value, { stream: true }), so the model cuts *)
(* between characters.                                                     *)
(***************************************************************************)
\* records of one response body, at most
MaxBodyRecords == 2

VARIABLES
    bodySent,   \* the records the route wrote to the body, in order
    bodyRest,   \* the characters of the body the reader has not been given
    buffer,     \* the local buffer of the read loop
    parsed,     \* the values JSON.parse returned to the loop, in order
    rpc         \* "idle", "reading", "done"

chunkVars == <<bodySent, bodyRest, buffer, parsed, rpc>>

InitChunk ==
    /\ bodySent = <<>>
    /\ bodyRest = <<>>
    /\ buffer = <<>>
    /\ parsed = <<>>
    /\ rpc = "idle"

NewLine == "\n"

\* 'data: '
DataPrefix == <<"d", "a", "t", "a", ":", " ">>

\* the records a body is made of: a progress and a complete event
BodyRecords == {"p", "c"}

\* JSON.stringify of a record
Stringify(rec) == <<"{", rec, "}">>

\* JSON.parse: the record of a well-formed text, Undefined when it throws
Parse(text) ==
    IF Len(text) = 3 /\ text[1] = "{" /\ text[3] = "}" /\ text[2] \in BodyRecords
    THEN text[2] ELSE Undefined

\* the delimiters between two records: one newline, or a blank line
Delimiters == { <<NewLine>>, <<NewLine, NewLine>> }

RECURSIVE Body(_, _, _)
\* the text of a body: the lines of recs, delim between two lines and
\* last after the final one
Body(recs, delim, last) ==
    IF recs = <<>> THEN <<>>
    ELSE DataPrefix \o Stringify(Head(recs)) \o
         (IF Len(recs) = 1 THEN last ELSE delim \o Body(Tail(recs), delim, last))

RECURSIVE Split(_)
\* buffer.split('\n')
Split(text) ==
    LET at == {n \in DOMAIN text : text[n] = NewLine}
    IN  IF at = {} THEN <<text>>
        ELSE LET n == CHOOSE x \in at : \A y \in at : x <= y
             IN  <<SubSeq(text, 1, n - 1)>> \o
                 Split(SubSeq(text, n + 1, Len(text)))

\* line.startsWith('data: ')
StartsWithData(line) ==
    Len(line) >= Len(DataPrefix) /\ SubSeq(line, 1, Len(DataPrefix)) = DataPrefix

\* line.slice(6)
Slice6(line) == SubSeq(line, Len(DataPrefix) + 1, Len(line))

RECURSIVE ParseLines(_)
\* for (const line of lines): a line without the prefix is skipped, a line
\* whose JSON does not parse is skipped by the catch
ParseLines(lines) ==
    IF lines = <<>> THEN <<>>
    ELSE LET line == Head(lines)
             data == IF StartsWithData(line) THEN Parse(Slice6(line))
                     ELSE Undefined
         IN  (IF data = Undefined THEN <<>> ELSE <<data>>) \o
             ParseLines(Tail(lines))

\* the response begins: the route will write recs
BodyBegins(recs, delim, last) ==
    /\ rpc = "idle"
    /\ rpc' = "reading"
    /\ bodySent' = recs
    /\ bodyRest' = Body(recs, delim, last)
    /\ buffer' = <<>>
    /\ parsed' = <<>>

\* reader.read() returns the next n characters (lines 144-151)
ReadChunk(n) ==
    /\ rpc = "reading"
    /\ n \in 1..Len(bodyRest)
    /\ LET value == SubSeq(bodyRest, 1, n)
           lines == Split(buffer \o value)
       IN  /\ buffer' = lines[Len(lines)]
           /\ parsed' = parsed \o ParseLines(SubSeq(lines, 1, Len(lines) - 1))
    /\ bodyRest' = SubSeq(bodyRest, n + 1, Len(bodyRest))
    /\ UNCHANGED <<bodySent, rpc>>

\* reader.read() reports done: break (line 145)
ReadDone ==
    /\ rpc = "reading"
    /\ bodyRest = <<>>
    /\ rpc' = "done"
    /\ UNCHANGED <<bodySent, bodyRest, buffer, parsed>>

(***************************************************************************)
(* The 'new' flag of a result (search-history-store.ts lines 166-200).     *)
(* Each video of a videos record is wrapped with isNew: true and addedAt:  *)
(* Date.now(); a timeout of 300 ms, set with the record, clears the flag   *)
(* of the videos of that record in the results shown.  Time is a counter   *)
(* of the moments Date.now() has told apart; timeouts of the same delay    *)
(* fire in the order they were set, and none fires in the moment it was    *)
(* set.                                                                    *)
(***************************************************************************)
\* videos records of one response, at most
MaxBatches == 2

\* moments Date.now() tells apart, at most
MaxMoments == 2

VARIABLES
    items,      \* results, as shown: video, addedAt, isNew
    allItems,   \* the local allVideos: the wrapped videos, as created
    timeouts,   \* the timeouts set and not fired yet: newVideos and moment
    now,        \* Date.now()
    fpc,        \* "idle", "reading", "ended"
    fBatches,   \* videos records applied in the run
    fRuns       \* performSearch calls so far

flagVars == <<items, allItems, timeouts, now, fpc, fBatches, fRuns>>

InitFlags ==
    /\ items = <<>>
    /\ allItems = <<>>
    /\ timeouts = <<>>
    /\ now = 0
    /\ fpc = "idle"
    /\ fBatches = 0
    /\ fRuns = 0

\* data.videos of a videos record
VideoBatches ==
    { <<>>, <<Video("dytt", 1)>>, <<Video("ruyi", 1)>>,
      <<Video("dytt", 1), Video("ruyi", 1)>> }

\* data.videos.map(video => ({ ...video, isNew: true, addedAt: Date.now() }))
Wrap(videos, moment) ==
    [n \in DOMAIN videos |->
        [video |-> videos[n], addedAt |-> moment, isNew |-> TRUE]]

\* newVideos.some(nv => nv.vod_id === v.vod_id && nv.source === v.source
\*                      && nv.addedAt === v.addedAt)
wasJustAdded(newVideos, v) ==
    \E n \in DOMAIN newVideos :
        newVideos[n].video = v.video /\ newVideos[n].addedAt = v.addedAt

\* prev.map(v => wasJustAdded ? { ...v, isNew: false } : v)
ClearNew(prev, newVideos) ==
    [n \in DOMAIN prev |->
        IF wasJustAdded(newVideos, prev[n])
        THEN [prev[n] EXCEPT !.isNew = FALSE] ELSE prev[n]]

\* performSearch starts a run: setResults([]), a fresh allVideos
FlagSearchStarts ==
    /\ fpc # "reading"
    /\ fRuns < MaxSearches
    /\ fRuns' = fRuns + 1
    /\ fpc' = "reading"
    /\ fBatches' = 0
    /\ items' = <<>>
    /\ allItems' = <<>>
    /\ UNCHANGED <<timeouts, now>>

\* the read loop applies a videos record (lines 166-200)
VideosArrive(videos) ==
    /\ fpc = "reading"
    /\ fBatches < MaxBatches
    /\ fBatches' = fBatches + 1
    /\ LET newVideos == Wrap(videos, now)
       IN  /\ allItems' = allItems \o newVideos
           /\ items' = allItems'
           /\ timeouts' = Append(timeouts, [newVideos |-> newVideos, at |-> now])
    /\ UNCHANGED <<now, fpc, fRuns>>

\* the oldest timeout fires (lines 193-200)
TimeoutFires ==
    /\ timeouts # <<>>
    /\ Head(timeouts).at < now
    /\ items' = ClearNew(items, Head(timeouts).newVideos)
    /\ timeouts' = Tail(timeouts)
    /\ UNCHANGED <<allItems, now, fpc, fBatches, fRuns>>

\* Date.now() moves on
TimePasses ==
    /\ now < MaxMoments
    /\ now' = now + 1
    /\ UNCHANGED <<items, allItems, timeouts, fpc, fBatches, fRuns>>

\* the response ends, by Complete, close or failure
FlagStreamEnds ==
    /\ fpc = "reading"
    /\ fpc' = "ended"
    /\ UNCHANGED <<items, allItems, timeouts, now, fBatches, fRuns>>

\* resetSearch: setResults([])
FlagReset ==
    /\ items' = <<>>
    /\ UNCHANGED <<allItems, timeouts, now, fpc, fBatches, fRuns>>

(***************************************************************************)
(* A history variable for the consumer: resetSearch has been called since  *)
(* the latest performSearch started.  It is written by the specification   *)
(* that watches the consumer (SpecReset) and by nothing else.              *)
(***************************************************************************)
VARIABLES resetSeen

watchVars == <<resetSeen>>

InitWatch == resetSeen = FALSE

(***************************************************************************)
(* The search history store (search-history-store.ts lines 9-70).  An      *)
(* entry is its query; its timestamp, Date.now() at the add, is read by    *)
(* nothing in the store and is left out.  The store is persisted under     *)
(* 'kvideo-search-history': a session starts from the list an earlier      *)
(* session left, which is a list the store's own calls produce.            *)
(***************************************************************************)
MAX_SEARCH_HISTORY == 20

\* calls made on the store in one session, at most
MaxStoreCalls == 3

VARIABLES
    searchHistory,  \* the entries, the most recent first
    hpc,            \* "created", "ready"
    hCalls,         \* the calls made in this session
    hLast           \* the latest call: op and query

histVars == <<searchHistory, hpc, hCalls, hLast>>

NoCall == [op |-> "none", query |-> <<>>]

InitHistory ==
    /\ searchHistory = <<>>
    /\ hpc = "created"
    /\ hCalls = 0
    /\ hLast = NoCall

\* the words users search for, one more than the cap and some to spare
Words ==
    << "a", "b", "c", "d", "e", "f", "g", "h", "i", "j", "k", "l", "m",
       "n", "o", "p", "q", "r", "s", "t", "u", "v", "w", "x", "y", "z" >>

Queries(history) == {history[n].query : n \in DOMAIN history}

\* a store that keeps every entry
addSearchHistoryNoCap(history, query) ==
    LET trimmedQuery == trim(query)
    IN  IF Len(trimmedQuery) = 0 THEN history
        ELSE <<[query |-> trimmedQuery]>> \o
             SelectSeq(history, LAMBDA item : item.query # trimmedQuery)

\* a store that does not remove the entry of the same query
addSearchHistoryNoFilter(history, query) ==
    LET trimmedQuery == trim(query)
    IN  IF Len(trimmedQuery) = 0 THEN history
        ELSE LET newHistory == <<[query |-> trimmedQuery]>> \o history
             IN  SubSeq(newHistory, 1,
                        IF Len(newHistory) < MAX_SEARCH_HISTORY
                        THEN Len(newHistory) ELSE MAX_SEARCH_HISTORY)

\* addSearchHistory (lines 30-48)
addSearchHistory(history, query) ==
    LET trimmedQuery == trim(query)
    IN  IF Len(trimmedQuery) = 0 THEN history
        ELSE LET filtered ==
                     SelectSeq(history, LAMBDA item : item.query # trimmedQuery)
                 newHistory == <<[query |-> trimmedQuery]>> \o filtered
             IN  \* .slice(0, MAX_SEARCH_HISTORY)
                 SubSeq(newHistory, 1,
                        IF Len(newHistory) < MAX_SEARCH_HISTORY
                        THEN Len(newHistory) ELSE MAX_SEARCH_HISTORY)

\* removeSearchHistory (lines 50-56): the query is compared as given
removeSearchHistory(history, query) ==
    SelectSeq(history, LAMBDA item : item.query # query)

\* clearSearchHistory (lines 58-60)
clearSearchHistory == <<>>

\* the list n adds of n different words leave
Persisted(n) == [k \in 1..n |-> [query |-> <<Words[n + 1 - k]>>]]

\* the word not in the list that comes first in Words
FreshWord(history) ==
    LET unused == {n \in DOMAIN Words : <<Words[n]>> \notin Queries(history)}
    IN  Words[CHOOSE n \in unused : \A m \in unused : n <= m]

\* the queries a call is made with: blank ones, a word not in the list, the
\* query of the first, of the second and of the last entry, each as it is
\* and with spaces around it
CallQueries(history) ==
    LET base == {<<FreshWord(history)>>} \cup
                {history[n].query : n \in DOMAIN history \cap {1, 2, Len(history)}}
    IN  {<<>>, <<" ">>} \cup base \cup {<<" ">> \o q \o <<" ">> : q \in base}

\* persist: the list of the earlier session is restored
Rehydrate(n) ==
    /\ hpc = "created"
    /\ hpc' = "ready"
    /\ searchHistory' = Persisted(n)
    /\ UNCHANGED <<hCalls, hLast>>

AddSearchHistory(query) ==
    /\ hpc = "ready"
    /\ hCalls < MaxStoreCalls
    /\ hCalls' = hCalls + 1
    /\ hLast' = [op |-> "add", query |-> query]
    /\ searchHistory' = addSearchHistory(searchHistory, query)
    /\ UNCHANGED hpc

RemoveSearchHistory(query) ==
    /\ hpc = "ready"
    /\ hCalls < MaxStoreCalls
    /\ hCalls' = hCalls + 1
    /\ hLast' = [op |-> "remove", query |-> query]
    /\ searchHistory' = removeSearchHistory(searchHistory, query)
    /\ UNCHANGED hpc

ClearSearchHistory ==
    /\ hpc = "ready"
    /\ hCalls < MaxStoreCalls
    /\ hCalls' = hCalls + 1
    /\ hLast' = [op |-> "clear", query |-> <<>>]
    /\ searchHistory' = clearSearchHistory
    /\ UNCHANGED hpc

(***************************************************************************)
(* The HLS player hook, useHlsPlayer (part_005).  An effect run cleans up  *)
(* the instance of the run before and, where hls.js is to be used, makes a *)
(* new instance with its own two retry counters and its ERROR handler.     *)
(* hls.js delivers events to the handlers of an instance until destroy(),  *)
(* which removes them.  onError is the callback the player passes in.      *)
(* The FRAG_LOADED handler and autoplay only call video.play() and are     *)
(* left out.                                                               *)
(***************************************************************************)
MAX_RETRIES == 3

\* runs of the effect, at most
MaxEffects == 2

VARIABLES
    hls,                  \* "none", "live", "destroyed" (by its ERROR handler)
    effects,              \* runs of the effect so far
    networkErrorRetries,  \* the counters of the instance's handler
    mediaErrorRetries,
    fatalSeen,            \* fatal ERROR events delivered to the instance, by type
    startLoadCalls,       \* hls.startLoad() calls on the instance
    recoverCalls,         \* hls.recoverMediaError() calls on the instance
    onErrorCalls,         \* what onError was called with since the effect ran
    manifestParsed,       \* MANIFEST_PARSED was delivered to the instance
    hlsLast               \* the latest ERROR event delivered

hlsVars == <<hls, effects, networkErrorRetries, mediaErrorRetries, fatalSeen,
             startLoadCalls, recoverCalls, onErrorCalls, manifestParsed,
             hlsLast>>

ErrorTypes == {"networkError", "mediaError", "otherError"}

NoneSeen == [t \in ErrorTypes |-> 0]

NoEvent == [fatal |-> FALSE, type |-> "none"]

InitHls ==
    /\ hls = "none"
    /\ effects = 0
    /\ networkErrorRetries = 0
    /\ mediaErrorRetries = 0
    /\ fatalSeen = NoneSeen
    /\ startLoadCalls = 0
    /\ recoverCalls = 0
    /\ onErrorCalls = <<>>
    /\ manifestParsed = FALSE
    /\ hlsLast = NoEvent

\* what the effect finds: videoRef.current, src, Hls.isSupported() and
\* video.canPlayType('application/vnd.apple.mpegurl')
EffectInputs ==
    [video : BOOLEAN, src : {"", "a.m3u8"}, isSupported : BOOLEAN,
     native : BOOLEAN]

\* the ERROR events of hls.js: data.fatal and data.type
ErrorEvents == [fatal : BOOLEAN, type : ErrorTypes]

\* a handler that gives up one error earlier
WithinRetriesStrict(retries) == retries < MAX_RETRIES

\* networkErrorRetries <= MAX_RETRIES, mediaErrorRetries <= MAX_RETRIES
WithinRetries(retries) == retries <= MAX_RETRIES

\* the effect runs (lines 21-156), after the cleanup of the run before
\* (lines 151-155)
HlsEffect(in) ==
    /\ effects < MaxEffects
    /\ effects' = effects + 1
    /\ networkErrorRetries' = 0
    /\ mediaErrorRetries' = 0
    /\ fatalSeen' = NoneSeen
    /\ startLoadCalls' = 0
    /\ recoverCalls' = 0
    /\ manifestParsed' = FALSE
    /\ hlsLast' = NoEvent
    /\ IF ~in.video \/ in.src = ""
       THEN hls' = "none" /\ onErrorCalls' = <<>>
       ELSE IF in.isSupported /\ ~in.native
       THEN hls' = "live" /\ onErrorCalls' = <<>>
       ELSE IF in.native
       THEN hls' = "none" /\ onErrorCalls' = <<>>
       ELSE hls' = "none" /\ onErrorCalls' = <<"unsupported">>

\* MANIFEST_PARSED (lines 71-97)
ManifestParsed(hasHEVC) ==
    /\ hls = "live"
    /\ ~manifestParsed
    /\ manifestParsed' = TRUE
    /\ onErrorCalls' =
           IF hasHEVC THEN Append(onErrorCalls, "hevc") ELSE onErrorCalls
    /\ UNCHANGED <<hls, effects, networkErrorRetries, mediaErrorRetries,
                   fatalSeen, startLoadCalls, recoverCalls, hlsLast>>

\* the ERROR handler (lines 103-138)
HlsError(data) ==
    /\ hls = "live"
    /\ hlsLast' = data
    /\ fatalSeen' = IF data.fatal THEN [fatalSeen EXCEPT ![data.type] = @ + 1]
                    ELSE fatalSeen
    /\ IF ~data.fatal
       THEN UNCHANGED <<hls, networkErrorRetries, mediaErrorRetries,
                        startLoadCalls, recoverCalls, onErrorCalls>>
       ELSE CASE data.type = "networkError" ->
                   /\ networkErrorRetries' = networkErrorRetries + 1
                   /\ IF WithinRetries(networkErrorRetries')
                      THEN /\ startLoadCalls' = startLoadCalls + 1
                           /\ UNCHANGED <<hls, onErrorCalls>>
                      ELSE /\ onErrorCalls' = Append(onErrorCalls, "network")
                           /\ hls' = "destroyed"
                           /\ UNCHANGED startLoadCalls
                   /\ UNCHANGED <<mediaErrorRetries, recoverCalls>>
              [] data.type = "mediaError" ->
                   /\ mediaErrorRetries' = mediaErrorRetries + 1
                   /\ IF WithinRetries(mediaErrorRetries')
                      THEN /\ recoverCalls' = recoverCalls + 1
                           /\ UNCHANGED <<hls, onErrorCalls>>
                      ELSE /\ onErrorCalls' = Append(onErrorCalls, "media")
                           /\ hls' = "destroyed"
                           /\ UNCHANGED recoverCalls
                   /\ UNCHANGED <<networkErrorRetries, startLoadCalls>>
              [] OTHER ->
                   /\ onErrorCalls' = Append(onErrorCalls, "fatal")
                   /\ hls' = "destroyed"
                   /\ UNCHANGED <<networkErrorRetries, mediaErrorRetries,
                                  startLoadCalls, recoverCalls>>
    /\ UNCHANGED <<effects, manifestParsed>>

(***************************************************************************)
(* The state of the page outside the search pipeline.                      *)
(***************************************************************************)
pageVars == <<chunkVars, flagVars, watchVars, histVars, hlsVars>>

InitPage == InitChunk /\ InitFlags /\ InitWatch /\ InitHistory /\ InitHls

(***************************************************************************)
(* The specifications.                                                     *)
(***************************************************************************)
vars == <<batchVars, streamVars, idemVars, pageVars>>

Init == InitBatch /\ InitStream /\ InitIdem /\ InitPage

\* the batch handlers
Next ==
    \/ \E q \in QueryInputs, ids \in SourceIdsInputs :
          POSTReceive(q, ids) /\ UNCHANGED <<streamVars, idemVars, pageVars>>
    \/ POSTMalformedBody /\ UNCHANGED <<streamVars, idemVars, pageVars>>
    \/ \E q \in {x \in QueryInputs : x.kind # "number"},
          ids \in {x \in SourceIdsInputs : x.kind # "notarray"} :
          GETReceive(q, ids) /\ UNCHANGED <<streamVars, idemVars, pageVars>>
    \/ \E i \in DOMAIN srcState, k \in 0..MaxResults :
          SourceReturns(i, k) /\ UNCHANGED <<streamVars, idemVars, pageVars>>
    \/ \E i \in DOMAIN srcState, f \in SourceFailures :
          SourceFails(i, f) /\ UNCHANGED <<streamVars, idemVars, pageVars>>
    \/ SearchDone /\ UNCHANGED <<streamVars, idemVars, pageVars>>
    \/ \E j \in DOMAIN chk, o \in ProbeOutcomes :
          CheckCompletes(j, o) /\ UNCHANGED <<streamVars, idemVars, pageVars>>
    \/ Respond /\ UNCHANGED <<streamVars, idemVars, pageVars>>

Spec == Init /\ [][Next]_vars

\* the route and its consumer
NextStream ==
    \/ SrvAccept /\ UNCHANGED <<batchVars, idemVars, pageVars>>
    \/ \E i \in DOMAIN sSrc, k \in 0..MaxResults :
          SrvSourceReturns(i, k) /\ UNCHANGED <<batchVars, idemVars, pageVars>>
    \/ \E i \in DOMAIN sSrc, f \in SourceFailures :
          SrvSourceFails(i, f) /\ UNCHANGED <<batchVars, idemVars, pageVars>>
    \/ SrvStartChecking /\ UNCHANGED <<batchVars, idemVars, pageVars>>
    \/ \E j \in DOMAIN sChk, o \in ProbeOutcomes :
          SrvCheckDone(j, o) /\ UNCHANGED <<batchVars, idemVars, pageVars>>
    \/ SrvComplete /\ UNCHANGED <<batchVars, idemVars, pageVars>>
    \/ SrvFatal /\ UNCHANGED <<batchVars, idemVars, pageVars>>
    \/ SrvObserveCancel /\ UNCHANGED <<batchVars, idemVars, pageVars>>
    \/ \E q \in ClientQueries : PerformSearch(q) /\ UNCHANGED <<batchVars, idemVars, pageVars>>
    \/ Rerender /\ UNCHANGED <<batchVars, idemVars, pageVars>>
    \/ AbortedCatch /\ UNCHANGED <<batchVars, idemVars, pageVars>>
    \/ FetchResolves /\ UNCHANGED <<batchVars, idemVars, pageVars>>
    \/ FetchFails /\ UNCHANGED <<batchVars, idemVars, pageVars>>
    \/ ClientApply /\ UNCHANGED <<batchVars, idemVars, pageVars>>
    \/ ClientDone /\ UNCHANGED <<batchVars, idemVars, pageVars>>
    \/ ClientReadFails /\ UNCHANGED <<batchVars, idemVars, pageVars>>
    \/ ResetSearch /\ UNCHANGED <<batchVars, idemVars, pageVars>>

SpecStream == Init /\ [][NextStream]_vars

\* the POST handler on the same request twice
NextIdem ==
    \/ \E world \in Worlds : IdemBegin(world) /\ UNCHANGED <<streamVars, pageVars>>
    \/ \E i \in DOMAIN srcState : IdemSourceEnds(i) /\ UNCHANGED <<streamVars, pageVars>>
    \/ IdemSearchDone /\ UNCHANGED <<streamVars, pageVars>>
    \/ \E j \in DOMAIN chk : IdemProbeEnds(j) /\ UNCHANGED <<streamVars, pageVars>>
    \/ IdemRespond /\ UNCHANGED <<streamVars, pageVars>>
    \/ IdemRestart /\ UNCHANGED <<streamVars, pageVars>>
    \/ IdemAgain /\ UNCHANGED <<streamVars, pageVars>>

SpecIdem == Init /\ [][NextIdem]_vars

\* the same, in the worlds where the late results are dead
NextLive ==
    \/ \E world \in LateDeadWorlds : IdemBegin(world) /\ UNCHANGED <<streamVars, pageVars>>
    \/ \E i \in DOMAIN srcState : IdemSourceEnds(i) /\ UNCHANGED <<streamVars, pageVars>>
    \/ IdemSearchDone /\ UNCHANGED <<streamVars, pageVars>>
    \/ \E j \in DOMAIN chk : IdemProbeEnds(j) /\ UNCHANGED <<streamVars, pageVars>>
    \/ IdemRespond /\ UNCHANGED <<streamVars, pageVars>>
    \/ IdemRestart /\ UNCHANGED <<streamVars, pageVars>>
    \/ IdemAgain /\ UNCHANGED <<streamVars, pageVars>>

\* every SourceClient call and every probe ends, by reply, error or its own
\* timeout, and a handler that can go on does
SourceCallEnds ==
    /\ \E i \in DOMAIN srcState : IdemSourceEnds(i)
    /\ UNCHANGED <<streamVars, pageVars>>

ProbeEnds ==
    /\ \E j \in DOMAIN chk : IdemProbeEnds(j)
    /\ UNCHANGED <<streamVars, pageVars>>

HandlerContinues ==
    /\ IdemSearchDone \/ IdemRespond
    /\ UNCHANGED <<streamVars, pageVars>>

SpecLive ==
    /\ Init
    /\ [][NextLive]_vars
    /\ WF_vars(SourceCallEnds)
    /\ WF_vars(ProbeEnds)
    /\ WF_vars(HandlerContinues)

\* the consumer on an arbitrary response body
NextWire ==
    \/ WireOpens /\ UNCHANGED <<batchVars, idemVars, pageVars>>
    \/ \E rec \in WireRecords : WireDelivers(rec) /\ UNCHANGED <<batchVars, idemVars, pageVars>>
    \/ WireCloses /\ UNCHANGED <<batchVars, idemVars, pageVars>>
    \/ \E q \in ClientQueries : PerformSearch(q) /\ UNCHANGED <<batchVars, idemVars, pageVars>>
    \/ Rerender /\ UNCHANGED <<batchVars, idemVars, pageVars>>
    \/ AbortedCatch /\ UNCHANGED <<batchVars, idemVars, pageVars>>
    \/ FetchResolves /\ UNCHANGED <<batchVars, idemVars, pageVars>>
    \/ FetchFails /\ UNCHANGED <<batchVars, idemVars, pageVars>>
    \/ ClientApply /\ UNCHANGED <<batchVars, idemVars, pageVars>>
    \/ ClientDone /\ UNCHANGED <<batchVars, idemVars, pageVars>>
    \/ ClientReadFails /\ UNCHANGED <<batchVars, idemVars, pageVars>>
    \/ ResetSearch /\ UNCHANGED <<batchVars, idemVars, pageVars>>

SpecWire == Init /\ [][NextWire]_vars

\* the exchange ends: the response begins, and a response that began closes
ResponseEnds ==
    /\ WireOpens \/ WireCloses
    /\ UNCHANGED <<batchVars, idemVars, pageVars>>

\* the consumer goes on: a pending rejection reaches its catch, a settled
\* fetch resumes the run, the read loop takes what has arrived, React renders
ConsumerContinues ==
    /\ AbortedCatch \/ FetchResolves \/ ClientApply \/ ClientDone \/ Rerender
    /\ UNCHANGED <<batchVars, idemVars, pageVars>>

\* the consumer on a response that ends
SpecWireLive ==
    /\ Init
    /\ [][NextWire]_vars
    /\ WF_vars(ResponseEnds)
    /\ WF_vars(ConsumerContinues)

\* the consumer on an arbitrary response body, with resetSearch watched
NextReset ==
    \/ WireOpens /\ UNCHANGED <<batchVars, idemVars, pageVars>>
    \/ \E rec \in WireRecords : WireDelivers(rec) /\ UNCHANGED <<batchVars, idemVars, pageVars>>
    \/ WireCloses /\ UNCHANGED <<batchVars, idemVars, pageVars>>
    \/ \E q \in ClientQueries :
          /\ PerformSearch(q)
          /\ resetSeen' = FALSE
          /\ UNCHANGED <<batchVars, idemVars, chunkVars, flagVars, histVars, hlsVars>>
    \/ Rerender /\ UNCHANGED <<batchVars, idemVars, pageVars>>
    \/ AbortedCatch /\ UNCHANGED <<batchVars, idemVars, pageVars>>
    \/ FetchResolves /\ UNCHANGED <<batchVars, idemVars, pageVars>>
    \/ FetchFails /\ UNCHANGED <<batchVars, idemVars, pageVars>>
    \/ ClientApply /\ UNCHANGED <<batchVars, idemVars, pageVars>>
    \/ ClientDone /\ UNCHANGED <<batchVars, idemVars, pageVars>>
    \/ ClientReadFails /\ UNCHANGED <<batchVars, idemVars, pageVars>>
    \/ /\ ResetSearch
       /\ resetSeen' = TRUE
       /\ UNCHANGED <<batchVars, idemVars, chunkVars, flagVars, histVars, hlsVars>>

SpecReset == Init /\ [][NextReset]_vars

\* the read loop on a body cut into chunks
NextChunk ==
    \/ \E n \in 0..MaxBodyRecords, delim \in Delimiters,
          last \in {<<>>, <<NewLine>>} :
          \E recs \in [1..n -> BodyRecords] :
             BodyBegins(recs, delim, last)
             /\ UNCHANGED <<batchVars, streamVars, idemVars, flagVars, watchVars, histVars, hlsVars>>
    \/ \E n \in 1..Len(bodyRest) :
          ReadChunk(n) /\ UNCHANGED <<batchVars, streamVars, idemVars, flagVars, watchVars, histVars, hlsVars>>
    \/ ReadDone /\ UNCHANGED <<batchVars, streamVars, idemVars, flagVars, watchVars, histVars, hlsVars>>

SpecChunk == Init /\ [][NextChunk]_vars

\* the 'new' flags of the results shown
NextFlags ==
    \/ FlagSearchStarts /\ UNCHANGED <<batchVars, streamVars, idemVars, chunkVars, watchVars, histVars, hlsVars>>
    \/ \E videos \in VideoBatches :
          VideosArrive(videos)
          /\ UNCHANGED <<batchVars, streamVars, idemVars, chunkVars, watchVars, histVars, hlsVars>>
    \/ TimeoutFires /\ UNCHANGED <<batchVars, streamVars, idemVars, chunkVars, watchVars, histVars, hlsVars>>
    \/ TimePasses /\ UNCHANGED <<batchVars, streamVars, idemVars, chunkVars, watchVars, histVars, hlsVars>>
    \/ FlagStreamEnds /\ UNCHANGED <<batchVars, streamVars, idemVars, chunkVars, watchVars, histVars, hlsVars>>
    \/ FlagReset /\ UNCHANGED <<batchVars, streamVars, idemVars, chunkVars, watchVars, histVars, hlsVars>>

SpecFlags == Init /\ [][NextFlags]_vars

\* the search history store
NextHistory ==
    \/ \E n \in 0..MAX_SEARCH_HISTORY :
          Rehydrate(n)
          /\ UNCHANGED <<batchVars, streamVars, idemVars, chunkVars, flagVars,
                    watchVars, hlsVars>>
    \/ \E query \in CallQueries(searchHistory) :
          AddSearchHistory(query)
          /\ UNCHANGED <<batchVars, streamVars, idemVars, chunkVars, flagVars,
                    watchVars, hlsVars>>
    \/ \E query \in CallQueries(searchHistory) :
          RemoveSearchHistory(query)
          /\ UNCHANGED <<batchVars, streamVars, idemVars, chunkVars, flagVars,
                    watchVars, hlsVars>>
    \/ ClearSearchHistory
       /\ UNCHANGED <<batchVars, streamVars, idemVars, chunkVars, flagVars,
                    watchVars, hlsVars>>

SpecHistory == Init /\ [][NextHistory]_vars

\* the HLS player hook
NextHls ==
    \/ \E in \in EffectInputs :
          HlsEffect(in)
          /\ UNCHANGED <<batchVars, streamVars, idemVars, chunkVars, flagVars,
                         watchVars, histVars>>
    \/ \E hasHEVC \in BOOLEAN :
          ManifestParsed(hasHEVC)
          /\ UNCHANGED <<batchVars, streamVars, idemVars, chunkVars, flagVars,
                         watchVars, histVars>>
    \/ \E data \in ErrorEvents :
          HlsError(data)
          /\ UNCHANGED <<batchVars, streamVars, idemVars, chunkVars, flagVars,
                         watchVars, histVars>>

SpecHls == Init /\ [][NextHls]_vars

(***************************************************************************)
(* Views of a finished batch run.                                          *)
(***************************************************************************)
\* the run passed validation and went through the pipeline
BatchRan == hPhase = "responded" /\ srcState # <<>>

\* every video listed in the response, group after group
ResponseVideos ==
    FlatMap([g \in DOMAIN response.sources |-> response.sources[g].results])

AvailableIdx == {j \in DOMAIN chk : chk[j] = "available"}

OkSlots == {i \in DOMAIN srcState : srcState[i] = "ok"}

Occurrences(seq, v) == Cardinality({n \in DOMAIN seq : seq[n] = v})

(***************************************************************************)
(* C1: at every moment of a batch run at most 8 availability checks are in *)
(* flight, whatever the number of candidates and the order of completion.  *)
(***************************************************************************)
C1_CapRespected == Cardinality(InFlight(chk)) <= 8

\* 8 checks in flight, the 9th candidate admitted after a check other than
\* the first one completed
C1_Witness ==
    /\ hPhase = "checking"
    /\ Len(chk) > 8
    /\ Cardinality(InFlight(chk)) = 8
    /\ chk[1] = "inflight"
    /\ chk[9] = "inflight"

(***************************************************************************)
(* C2: a source whose search fails or times out contributes no candidate   *)
(* and no error: the run ends with the success response, and the verified  *)
(* videos are exactly the available candidates of the sources that         *)
(* answered.                                                               *)
(***************************************************************************)
C2_FailedSourceSwallowed ==
    BatchRan =>
        /\ response.status = 200
        /\ response.success = "true"
        /\ Range(allVideos) =
               UNION {Range(searchResults[i].results) : i \in OkSlots}
        /\ Len(allVideos) =
               SeqSum([i \in DOMAIN srcState |->
                          IF i \in OkSlots THEN Len(searchResults[i].results)
                          ELSE 0])
        /\ Range(ResponseVideos) = {allVideos[j] : j \in AvailableIdx}

\* one source failed, another one's candidate is in the response
C2_Witness ==
    /\ BatchRan
    /\ \E i \in DOMAIN srcState : srcState[i] = "failed"
    /\ response.totalResults > 0

(***************************************************************************)
(* C3: no two videos of the verified output of a batch run share the       *)
(* same (source, vod_id) pair, also when the request repeats a source id.  *)
(***************************************************************************)
C3_NoDuplicateVerified ==
    hPhase = "responded" =>
        \A a, b \in DOMAIN ResponseVideos :
            a # b => ResponseVideos[a] # ResponseVideos[b]

(***************************************************************************)
(* C5: a candidate is in the verified output of a batch run exactly when   *)
(* its probe said available; a dead, timed-out or failed probe drops the   *)
(* candidate and the run still answers with success.                       *)
(***************************************************************************)
C5_OnlyAvailableForwarded ==
    BatchRan =>
        /\ response.success = "true"
        /\ response.totalResults = Cardinality(AvailableIdx)
        /\ \A v \in Range(allVideos) \cup Range(ResponseVideos) :
               Occurrences(ResponseVideos, v) =
                   Cardinality({j \in AvailableIdx : allVideos[j] = v})

\* a run in which a source had one candidate dropped and two forwarded
C5_Witness ==
    /\ BatchRan
    /\ \E j \in DOMAIN chk : chk[j] = "unavailable"
    /\ \E g \in DOMAIN response.sources : Len(response.sources[g].results) >= 2

(***************************************************************************)
(* Views of the streaming run.                                             *)
(***************************************************************************)
\* the consumer's read loop is on the response of the run in sStage
ClientOnWire == accepted /\ cpc \in {"reading", "ended"}

TypeIdx(w, type) == {n \in DOMAIN w : w[n].type = type}

SearchingIdx(w) ==
    {n \in TypeIdx(w, "progress") : w[n].stage = "searching"}

CheckingIdx(w) ==
    {n \in TypeIdx(w, "progress") : w[n].stage = "checking"}

\* the videos of the VideosFound records of w, in order
RECURSIVE WireVideos(_)

WireVideos(w) ==
    IF w = <<>> THEN <<>>
    ELSE (IF Head(w).type = "videos" THEN Head(w).videos ELSE <<>>)
             \o WireVideos(Tail(w))

\* checkedVideos of the last VideosFound record before position n
PrevChecked(w, n) ==
    LET before == {m \in TypeIdx(w, "videos") : m < n}
    IN  IF before = {} THEN 0
        ELSE w[CHOOSE m \in before : \A o \in before : o <= m].checkedVideos

\* candidates the VideosFound records of w account for, batch by batch
Referenced(w) ==
    SeqSum([n \in DOMAIN w |->
               IF w[n].type = "videos"
               THEN w[n].checkedVideos - PrevChecked(w, n)
               ELSE 0])

\* a step of the read loop that goes through the record at cPos'
Applies == cPos' = cPos + 1

C6_CompleteOnceAndLast ==
    /\ Cardinality(TypeIdx(wire, "complete")) <= 1
    /\ \A n \in TypeIdx(wire, "complete") : n = Len(wire) /\ streamClosed
    /\ sStage = "complete" <=> TypeIdx(wire, "complete") # {}
    /\ (ClientOnWire /\ \E n \in 1..cPos : wire[n].type = "complete")
           => cPos = Len(wire) /\ streamClosed

\* the consumer has applied the Complete record of a run with verdicts
C6_Witness ==
    /\ sStage = "complete"
    /\ Len(wire) >= 4
    /\ ClientOnWire
    /\ cPos = Len(wire)
    /\ ~loading
    /\ checkedVideos = VerifiedCount(sChk)

(***************************************************************************)
(* C7: once the read loop has gone through an Error record, no record that *)
(* follows it in the response changes what the hook shows (results,        *)
(* sources, counters, stage, loading).                                     *)
(***************************************************************************)
ErrorApplied == \E n \in 1..cPos : wire[n].type = "error"

C7_NothingAppliedAfterError ==
    [][(cpc = "reading" /\ ErrorApplied /\ Applies)
           => UNCHANGED <<hookState, allVideosC, sourceVideoCounts>>]_vars

(***************************************************************************)
(* C8: from the abort of a run that has not ended, the run puts no record  *)
(* on the stream and the consumer reads none, no source call and no check  *)
(* is started, the stream never holds a Complete record, and once the run  *)
(* has observed the cancellation none of its source calls or checks is     *)
(* still outstanding.                                                      *)
(***************************************************************************)
PendingSources(st) == {i \in DOMAIN st : st[i] = "pending"}

FullIdx(w) == {n \in SearchingIdx(w) : w[n].checkedSources = w[n].totalSources}

SearchingCountsOrdered(w) ==
    /\ \A a, b \in SearchingIdx(w) :
           a < b => w[a].checkedSources <= w[b].checkedSources
    /\ \A n \in SearchingIdx(w) :
           /\ w[n].totalSources = Len(sSrc)
           /\ w[n].checkedSources <= w[n].totalSources
    /\ Cardinality(FullIdx(w)) <= 1
    /\ sStage \in {"checking", "complete"} =>
           /\ Cardinality(FullIdx(w)) = 1
           /\ \A n \in FullIdx(w) :
                  \A m \in DOMAIN w : w[m].type # "progress"
                                         \/ w[m].stage # "searching" => n < m
    /\ sStage = "searching" /\ PendingSources(sSrc) # {} => FullIdx(w) = {}

C9_CheckedSourcesMonotone ==
    /\ []SearchingCountsOrdered(wire)
    /\ [][(Applies /\ cPos' \in SearchingIdx(wire)) =>
              /\ checkedSources' = wire[cPos'].checkedSources
              /\ checkedSources' >= checkedSources]_vars

\* a source failed, the other answered last, the run is in Checking and the
\* consumer shows every source checked
C9_Witness ==
    /\ sStage = "checking"
    /\ \E i \in DOMAIN sSrc : sSrc[i] = "failed"
    /\ \E i \in DOMAIN sSrc : sSrc[i] = "ok"
    /\ ClientOnWire
    /\ cPos \in FullIdx(wire)
    /\ checkedSources = Len(sSrc)

(***************************************************************************)
(* C10: every Checking progress record and every VideosFound record of a   *)
(* run carries the number of candidates the search merged, which does not  *)
(* change while the run checks; and the consumer shows that number after   *)
(* each of them.                                                           *)
(***************************************************************************)
TotalVideosFixed(w) ==
    \A n \in CheckingIdx(w) \cup TypeIdx(w, "videos") :
        w[n].totalVideos = Len(sCands)

C10_TotalVideosFixed ==
    /\ []TotalVideosFixed(wire)
    /\ [][sStage = "checking" /\ sStage' \in {"checking", "complete"}
              => sCands' = sCands]_vars
    /\ [][(Applies /\ cPos' \in CheckingIdx(wire) \cup TypeIdx(wire, "videos"))
              => totalVideos' = Len(sCands)]_vars

\* one candidate of two checked, the consumer shows 1 of 2
C10_Witness ==
    /\ sStage = "checking"
    /\ Len(sCands) = 2
    /\ CheckedCount(sChk) = 1
    /\ ClientOnWire
    /\ cPos \in TypeIdx(wire, "videos")
    /\ checkedVideos = 1
    /\ totalVideos = 2

(***************************************************************************)
(* C14: while candidates wait in the queue of a batch run the number of    *)
(* checks in flight equals the cap, and the step in which a check          *)
(* completes admits the candidate that waited longest.                     *)
(***************************************************************************)
FirstQueued(c) == CHOOSE j \in Queued(c) : \A o \in Queued(c) : j <= o

C14_ExactlyCapWhileQueued ==
    /\ [](hPhase = "checking" /\ Queued(chk) # {}
             => Cardinality(InFlight(chk)) = checkConcurrency(hHandler))
    /\ [][(hPhase = "checking" /\ chk' # chk /\ Queued(chk) # {})
             => /\ chk'[FirstQueued(chk)] = "inflight"
                /\ Cardinality(InFlight(chk')) = Cardinality(InFlight(chk))]_vars

\* nine candidates: one check has completed and the ninth took its slot
C14_Witness ==
    /\ hPhase = "checking"
    /\ Len(chk) = 9
    /\ Queued(chk) = {}
    /\ Cardinality(InFlight(chk)) = 8
    /\ chk[9] = "inflight"
    /\ \E j \in 1..8 : chk[j] = "unavailable"

(***************************************************************************)
(* C17: the query a batch handler hands to the source fan-out is trimmed   *)
(* and not empty.                                                          *)
(***************************************************************************)
SearchInvoked == srcState # <<>>

C17_QueryNonEmptyAfterTrim ==
    SearchInvoked => Len(hQuery) > 0 /\ hQuery = trim(hQuery)

(***************************************************************************)
(* C18: every response of a batch handler that is not the success response *)
(* has a status other than 200, success = false and an error message; and  *)
(* a response with success = true has status 200.                          *)
(***************************************************************************)
C18_FailureShape ==
    hPhase = "responded" =>
        /\ response.success # "true" =>
               /\ response.status # 200
               /\ response.success = "false"
               /\ response.error # ""
        /\ response.success = "true" => response.status = 200

(***************************************************************************)
(* C19: in a success response the counts of sourceStats add up to          *)
(* totalResults, and totalResults is the number of results listed under    *)
(* sources.                                                                *)
(***************************************************************************)
StatsTotal(resp) ==
    SeqSum([i \in DOMAIN resp.sourceStats |-> resp.sourceStats[i].count])

ListedTotal(resp) ==
    SeqSum([g \in DOMAIN resp.sources |-> Len(resp.sources[g].results)])

C19_StatsSumToTotal ==
    BatchRan =>
        /\ StatsTotal(response) = response.totalResults
        /\ ListedTotal(response) = response.totalResults

(***************************************************************************)
(* C20: within a batch run no source is queried more than once and no      *)
(* candidate is probed more than once, and a source call or a probe that   *)
(* has ended, failed or not, is not issued again.                          *)
(***************************************************************************)
\* SourceClient calls the run has made to source s
SourceCalls(s) == Cardinality({i \in DOMAIN srcState : hSources[i] = s})

\* probes the run has started on candidate v
Probes(v) ==
    Cardinality({j \in DOMAIN chk : allVideos[j] = v /\ chk[j] # "queued"})

C20_NoRetry ==
    [][/\ \A s \in Range(hSources') : SourceCalls(s)' <= 1
       /\ \A v \in Range(allVideos') : Probes(v)' <= 1
       /\ \A i \in DOMAIN srcState :
              srcState[i] # "pending" => srcState'[i] = srcState[i]
       /\ \A j \in DOMAIN chk :
              chk[j] \in {"available", "unavailable"} => chk'[j] = chk[j]
      ]_vars

(***************************************************************************)
(* C16: a request whose query is missing, not a string or blank, whose     *)
(* source list is missing or empty, or none of whose source ids is known,  *)
(* is answered with an error response, and no source search and no         *)
(* availability check is made for it.                                      *)
(***************************************************************************)
Structural(req) ==
    \/ req.query \in {"missing", "nonstring", "blank"}
    \/ req.sources \in {"missing", "empty", "unknown"}

C16_StructuralErrorsAbort ==
    (hPhase # "idle" /\ Structural(hReq)) =>
        /\ ~SearchInvoked
        /\ chk = <<>>
        /\ hPhase = "responded"
        /\ response.success # "true"
        /\ response.error # ""

(***************************************************************************)
(* C12: the POST handler run twice on the same request, in a world where   *)
(* every source gives the same answer and every probe the same verdict,    *)
(* answers with the same set of verified videos both times, whatever the   *)
(* orders in which source calls and probes complete: the videos of the     *)
(* sources that answer, less the dead ones.                                *)
(***************************************************************************)
VerifiedSet(resp) ==
    UNION {Range(resp.sources[g].results) : g \in DOMAIN resp.sources}

WorldVerified(world) ==
    {v \in UNION {Range(SourceResults(s, ResultBound(s))) :
                     s \in Range(ResolveSources(world.ids)) \ world.fails} :
        v.vod_id \notin world.dead}

C12_SameVerifiedSet ==
    (iRun = 3 /\ hPhase = "responded") =>
        /\ response.success = "true"
        /\ iFirst.success = "true"
        /\ VerifiedSet(response) = VerifiedSet(iFirst)
        /\ VerifiedSet(response) = WorldVerified(iWorld)
        /\ response.totalResults = iFirst.totalResults

\* both runs have answered: nine candidates, a dead one among them
C12_Witness ==
    /\ iRun = 3
    /\ hPhase = "responded"
    /\ Len(chk) >= 9
    /\ \E j \in DOMAIN chk : chk[j] = "unavailable"
    /\ iFirst.totalResults >= 8
    /\ response.totalResults >= 8

(***************************************************************************)
(* C13: when every source call and every probe ends, a batch run that has  *)
(* started its source search goes on to a verdict for every candidate and  *)
(* to the success response.                                                *)
(***************************************************************************)
C13_RunCompletes ==
    SearchInvoked ~>
        (/\ hPhase = "responded"
         /\ response.success = "true"
         /\ Settled(chk))

\* a run of nine candidates has answered, the ninth verified after probes
\* that timed out
C13_Witness ==
    /\ hPhase = "responded"
    /\ response.success = "true"
    /\ Len(chk) = 9
    /\ chk[9] = "unavailable"
    /\ chk[1] = "available"
    /\ iRun = 1

(***************************************************************************)
(* C11: every record that carries a count of checked videos (a Checking    *)
(* progress record, a VideosFound record, the Complete record) leaves the  *)
(* consumer's checkedVideos no smaller than it was and no larger than the  *)
(* run's number of candidates.                                             *)
(***************************************************************************)
CountIdx(w) ==
    CheckingIdx(w) \cup TypeIdx(w, "videos") \cup TypeIdx(w, "complete")

C11_CountsNeverRegress ==
    [][(Applies /\ cPos' \in CountIdx(wire)) =>
           /\ checkedVideos' >= checkedVideos
           /\ checkedVideos' <= Len(sCands)]_vars

(***************************************************************************)
(* C15: a streamed run goes from Searching to Checking and from there to   *)
(* Complete, or ends Failed or cancelled on the way; no VideosFound or     *)
(* Checking record is on the stream before every source has reported, and  *)
(* no Searching record follows one; and the stage the consumer shows does  *)
(* not go back from checking to searching while it reads a response.       *)
(***************************************************************************)
StageMoves ==
    { <<"idle", "searching">>, <<"searching", "checking">>,
      <<"checking", "complete">>,
      <<"searching", "failed">>, <<"checking", "failed">>,
      <<"searching", "cancelled">>, <<"checking", "cancelled">>,
      \* the next request
      <<"complete", "searching">>, <<"failed", "searching">>,
      <<"cancelled", "searching">> }

StageOrdered(w) ==
    LET later == CheckingIdx(w) \cup TypeIdx(w, "videos")
    IN  /\ \A a \in SearchingIdx(w), b \in later : a < b
        /\ later # {} =>
               /\ PendingSources(sSrc) = {}
               /\ \E n \in FullIdx(w) : \A b \in later : n < b
        /\ sStage = "searching" => later = {}

C15_StageOrder ==
    /\ []StageOrdered(wire)
    /\ [][sStage' # sStage => <<sStage, sStage'>> \in StageMoves]_vars
    /\ [][(Applies /\ searchStage = "checking") => searchStage' = "checking"]_vars

\* a completed run with a failed source, read to its end: the consumer
\* shows checking
C15_Witness ==
    /\ sStage = "complete"
    /\ \E i \in DOMAIN sSrc : sSrc[i] = "failed"
    /\ SearchingIdx(wire) # {}
    /\ TypeIdx(wire, "videos") # {}
    /\ ClientOnWire
    /\ cPos = Len(wire)
    /\ searchStage = "checking"

(***************************************************************************)
(* C21.  Every record of the streamed response is consumed exactly once    *)
(* and in order, however the body is cut into chunks, a cut inside a       *)
(* record and a final record without a newline after it included: when the *)
(* read loop has ended, the values it parsed are the records sent.         *)
(***************************************************************************)
C21_EveryRecordConsumedOnce == (rpc = "done") => (parsed = bodySent)

(***************************************************************************)
(* C22.  Every performSearch run that passes its entry guard leaves the    *)
(* client in a non-loading state in the end, whichever way the response    *)
(* ends: loading never stays true forever.                                 *)
(***************************************************************************)
C22_LoadingEnds == loading ~> ~loading

(***************************************************************************)
(* C23.  The 'new' flag is transient: once the response has ended and      *)
(* every timeout has fired no result shown has isNew = true, and a result  *)
(* whose flag was cleared is not shown as new again when a later videos    *)
(* record is applied.                                                      *)
(***************************************************************************)
NoneNew(shown) == \A n \in DOMAIN shown : ~shown[n].isNew

\* a videos record was applied in this step
BatchApplied == fBatches' = fBatches + 1

C23_NewFlagTransient ==
    [][/\ (fpc' = "ended" /\ timeouts' = <<>>) => NoneNew(items')
       /\ BatchApplied =>
             \A n \in DOMAIN items : ~items[n].isNew => ~items'[n].isNew]_vars

(***************************************************************************)
(* C24.  While the response of a run is being read and its Complete record *)
(* has not been applied, loading is true; and the catch of a run aborted   *)
(* by a newer performSearch changes nothing of what the hook shows for the *)
(* newer run, loading included.                                            *)
(***************************************************************************)
\* the read loop has gone through a Complete record of the response
CompleteApplied == \E n \in 1..cPos : wire[n].type = "complete"

\* the aborted run's rejection reaches its catch in this step
AbortedRunCaught == pendingCatch /\ ~pendingCatch'

C24_LoadingWhileReading ==
    [][/\ (cpc' = "reading" /\ ~CompleteApplied') => loading'
       /\ AbortedRunCaught => UNCHANGED hookState]_vars

(***************************************************************************)
(* C25.  After resetSearch, results and availableSources stay empty and    *)
(* the counters stay 0 until the next performSearch starts, also when      *)
(* resetSearch is called while a response is still delivering records.     *)
(***************************************************************************)
HookCleared ==
    /\ results = <<>>
    /\ availableSources = <<>>
    /\ checkedSources = 0
    /\ checkedVideos = 0
    /\ totalVideos = 0

C25_ResetHolds == resetSeen => HookCleared

(***************************************************************************)
(* C26.  When the consumer has applied a VideosFound record, results is    *)
(* the concatenation, in order of arrival, of the video batches of the     *)
(* records read so far in the run, availableSources has exactly one entry  *)
(* for each source present in results, each with the number of results of  *)
(* that source, and the counts add up to the length of results.            *)
(***************************************************************************)
\* the read loop goes through a VideosFound record in this step
AppliesVideos == Applies /\ wire[cPos'].type = "videos"

\* the entries of a list of sources, one per source of shown, each with the
\* number of videos of that source
CountsMatch(sources, shown) ==
    /\ \A m, n \in DOMAIN sources : sources[m].id = sources[n].id => m = n
    /\ {sources[n].id : n \in DOMAIN sources} =
           {shown[k].source : k \in DOMAIN shown}
    /\ \A n \in DOMAIN sources :
           sources[n].count =
               Cardinality({k \in DOMAIN shown : shown[k].source = sources[n].id})
    /\ SeqSum([n \in DOMAIN sources |-> sources[n].count]) = Len(shown)

C26_ResultsAreTheBatches ==
    [][AppliesVideos =>
          /\ results' = WireVideos(SubSeq(wire, 1, cPos'))
          /\ CountsMatch(availableSources', results')]_vars

\* three videos of two sources read, two of them of the same source
C26_Witness ==
    /\ cpc = "reading"
    /\ cPos >= 1
    /\ wire[cPos].type = "videos"
    /\ Len(wire[cPos].videos) = 2
    /\ Len(results) >= 3
    /\ Len(availableSources) = 2
    /\ \E n \in DOMAIN availableSources : availableSources[n].count >= 2

(***************************************************************************)
(* C27.  onCacheUpdate is called only when a Complete record is applied,   *)
(* at most once in a run, with every video the run has received and the    *)
(* sources counted from them; a run that ends by abort, Error record,      *)
(* network failure or a close without Complete writes nothing.             *)
(***************************************************************************)
\* the read loop goes through a Complete record in this step
AppliesComplete == Applies /\ wire[cPos'].type = "complete"

\* performSearch passes its guard in this step: a new run
RunStarts == searches' = searches + 1

C27_CacheWrittenOnComplete ==
    [][/\ AppliesComplete =>
             /\ Len(cacheCalls') = 1
             /\ cacheCalls'[1].results = WireVideos(wire')
             /\ CountsMatch(cacheCalls'[1].sources, cacheCalls'[1].results)
       /\ ~AppliesComplete =>
             cacheCalls' = (IF RunStarts THEN <<>> ELSE cacheCalls)
       /\ ~CompleteApplied' => cacheCalls' = <<>>]_vars

\* the second run, after an aborted first, completes with two videos saved
C27_Witness ==
    /\ searches = 2
    /\ cpc = "ended"
    /\ CompleteApplied
    /\ Len(cacheCalls) = 1
    /\ Len(cacheCalls[1].results) = 2

(***************************************************************************)
(* C28.  The search history never holds more than 20 entries, whatever     *)
(* adds, removes and clears are made; an add to a full list of a query     *)
(* that is not in it drops the last entry, the least recently added, and   *)
(* keeps the others.                                                       *)
(***************************************************************************)
\* a call of addSearchHistory with a query that is not blank, in this step
AddsQuery ==
    /\ hCalls' = hCalls + 1
    /\ hLast'.op = "add"
    /\ Len(trim(hLast'.query)) # 0

C28_HistoryCapped ==
    [][/\ Len(searchHistory') <= MAX_SEARCH_HISTORY
       /\ (/\ AddsQuery
           /\ Len(searchHistory) = MAX_SEARCH_HISTORY
           /\ trim(hLast'.query) \notin Queries(searchHistory))
          => searchHistory' =
                 <<[query |-> trim(hLast'.query)]>> \o
                 SubSeq(searchHistory, 1, MAX_SEARCH_HISTORY - 1)]_vars

\* a twenty-first word was added to a full list: the oldest word is gone
C28_Witness ==
    /\ hLast.op = "add"
    /\ hCalls = 1
    /\ Len(searchHistory) = MAX_SEARCH_HISTORY
    /\ searchHistory[1].query = <<Words[MAX_SEARCH_HISTORY + 1]>>
    /\ <<Words[1]>> \notin Queries(searchHistory)
    /\ searchHistory[MAX_SEARCH_HISTORY].query = <<Words[2]>>

(***************************************************************************)
(* C29.  No two entries of the search history have the same query and no   *)
(* entry has a blank or untrimmed query; an add of a query that is not     *)
(* blank leaves its trimmed form at the head, once, with the other entries *)
(* in the order they had; an add of a blank query changes nothing.         *)
(***************************************************************************)
\* the entries of history other than query, in order
Others(history, query) ==
    SelectSeq(history, LAMBDA item : item.query # query)

\* s is the beginning of t
IsPrefix(s, t) == Len(s) <= Len(t) /\ s = SubSeq(t, 1, Len(s))

C29_HistoryDistinctTrimmed ==
    [][/\ \A m, n \in DOMAIN searchHistory' :
              searchHistory'[m].query = searchHistory'[n].query => m = n
       /\ \A n \in DOMAIN searchHistory' :
              /\ Len(searchHistory'[n].query) # 0
              /\ trim(searchHistory'[n].query) = searchHistory'[n].query
       /\ AddsQuery =>
              /\ searchHistory'[1].query = trim(hLast'.query)
              /\ Others(searchHistory', trim(hLast'.query)) = Tail(searchHistory')
              /\ IsPrefix(Tail(searchHistory'),
                          Others(searchHistory, trim(hLast'.query)))
              /\ Len(searchHistory') >= Len(searchHistory)
       /\ (/\ hCalls' = hCalls + 1
           /\ hLast'.op = "add"
           /\ Len(trim(hLast'.query)) = 0)
          => searchHistory' = searchHistory]_vars

\* the oldest word of a full list was searched again, with spaces around it
C29_Witness ==
    /\ hCalls = 1
    /\ hLast = [op |-> "add", query |-> <<" ", Words[1], " ">>]
    /\ Len(searchHistory) = MAX_SEARCH_HISTORY
    /\ searchHistory[1].query = <<Words[1]>>
    /\ searchHistory[2].query = <<Words[MAX_SEARCH_HISTORY]>>

(***************************************************************************)
(* C30.  For one HLS instance, recovery is attempted on the first three    *)
(* fatal network errors and on the first three fatal media errors, each    *)
(* type counted on its own and never reset; the fourth fatal error of a    *)
(* type, or a fatal error of another type, reports onError once and        *)
(* destroys the instance, and no startLoad or recoverMediaError is called  *)
(* after that; a non-fatal error changes no counter and destroys nothing.  *)
(***************************************************************************)
Least(a, b) == IF a <= b THEN a ELSE b

\* the onError calls that report a fatal error
FatalReports ==
    Cardinality({n \in DOMAIN onErrorCalls :
                    onErrorCalls[n] \in {"network", "media", "fatal"}})

\* the instance has had a fatal error it does not recover from
GivenUp ==
    \/ fatalSeen["networkError"] > MAX_RETRIES
    \/ fatalSeen["mediaError"] > MAX_RETRIES
    \/ fatalSeen["otherError"] >= 1

\* the same instance before and after the step
SameInstance == effects' = effects

C30_BoundedRecovery ==
    [][/\ startLoadCalls' = Least(fatalSeen'["networkError"], MAX_RETRIES)
       /\ recoverCalls' = Least(fatalSeen'["mediaError"], MAX_RETRIES)
       /\ (hls' = "destroyed") <=> GivenUp'
       /\ FatalReports' = (IF GivenUp' THEN 1 ELSE 0)
       /\ SameInstance =>
             /\ networkErrorRetries' >= networkErrorRetries
             /\ mediaErrorRetries' >= mediaErrorRetries
       /\ (SameInstance /\ hls = "destroyed") =>
             /\ hls' = "destroyed"
             /\ startLoadCalls' = startLoadCalls
             /\ recoverCalls' = recoverCalls
       /\ (SameInstance /\ hlsLast' # hlsLast /\ ~hlsLast'.fatal) =>
             UNCHANGED <<hls, networkErrorRetries, mediaErrorRetries,
                         startLoadCalls, recoverCalls, onErrorCalls>>]_vars

\* three media errors recovered, then the fourth network error gives up
C30_Witness ==
    /\ hls = "destroyed"
    /\ fatalSeen["networkError"] = MAX_RETRIES + 1
    /\ fatalSeen["mediaError"] = MAX_RETRIES
    /\ startLoadCalls = MAX_RETRIES
    /\ recoverCalls = MAX_RETRIES
    /\ hlsLast = [fatal |-> TRUE, type |-> "networkError"]
    /\ FatalReports = 1

=============================================================================
